---- MODULE Spec2Model ----
(***************************************************************************)
(* B-tree of b-tree-c/b-tree.c: nodes live in a heap of cells addressed by *)
(* integers; every public function (btree_create, btree_destroy,           *)
(* btree_insert, btree_delete) is one action that runs the whole call.     *)
(* Arrays are 0-based functions of the capacity create_node gives them.    *)
(***************************************************************************)
EXTENDS Integers, Sequences, FiniteSets, TLC

\* ------------------------------------------------------------------ bounds
MaxKey == 10         \* keys are drawn from 1..MaxKey
MaxDups == 1         \* inserts of a key the tree already holds, per tree (Spec)
MaxDupCount == 4     \* keys a tree holds at most once a key was inserted twice (Spec)
MaxDegree == 2       \* btree_create is called with t in 0..MaxDegree
MaxAllocs == 3       \* create_node calls that succeed before one fails (SpecAlloc)

Keys == 1..MaxKey
Degrees == 0..MaxDegree
MaxNodes == MaxKey + 3
Addr == 1..MaxNodes

\* ------------------------------------------------------- program constants
NULL == 0
INT_MIN == -2147483647 - 1
INT_MAX == 2147483647
\* content of a key slot that holds no defined value (malloc'ed, never written,
\* or beyond the node's key count)
Undef == 0

VARIABLES tree, heap, alloc, last, model, ndup, mergetest

vars == <<tree, heap, alloc, last, model, ndup, mergetest>>

\* the BTree* a caller holds when btree_create failed or after btree_destroy
NoTree == [t |-> 0, root |-> NULL]
\* a heap cell that is not allocated
NoCell == [n |-> 0, is_leaf |-> TRUE, keys |-> <<>>, children |-> <<>>]

Range(s) == {s[i] : i \in DOMAIN s}

\* ------------------------------------------------------------ create_node
\* malloc of the node and of its two arrays; children[] is set to NULL,
\* keys[] is left uninitialised.  The address is the least free one.
create_node(m, t, is_leaf) ==
    LET a == CHOOSE x \in Addr \ m.alloc : \A y \in Addr \ m.alloc : x <= y
        cell == [n |-> 0, is_leaf |-> is_leaf,
                 keys |-> [i \in 0..(2 * t - 2) |-> Undef],
                 children |-> [i \in 0..(2 * t - 1) |-> NULL]]
    IN [m |-> [heap |-> [m.heap EXCEPT ![a] = cell], alloc |-> m.alloc \cup {a}],
        node |-> a]

\* free(node->keys); free(node->children); free(node)
free_node(m, a) ==
    [heap |-> [m.heap EXCEPT ![a] = NoCell], alloc |-> m.alloc \ {a}]

RECURSIVE destroy_node(_, _)
RECURSIVE destroy_children(_, _, _)
\* the loop  for (i = 0; i <= node->n; i++) destroy_node(node->children[i])
destroy_children(m, node, i) ==
    IF i > m.heap[node].n THEN m
    ELSE destroy_children(destroy_node(m, m.heap[node].children[i]), node, i + 1)

destroy_node(m, node) ==
    IF node = NULL THEN m
    ELSE LET m1 == IF ~m.heap[node].is_leaf THEN destroy_children(m, node, 0) ELSE m
         IN free_node(m1, node)

\* btree_create with the degree check off by one (t < 1)
btree_create_low(m, t) ==
    IF t < 1 THEN [m |-> m, tree |-> NoTree]
    ELSE LET r == create_node(m, t, TRUE)
         IN [m |-> r.m, tree |-> [t |-> t, root |-> r.node]]

\* ------------------------------------------------------------ btree_create
\* returns the machine and the BTree struct (NoTree for a NULL return)
btree_create(m, t) ==
    IF t < 2 THEN [m |-> m, tree |-> NoTree]
    ELSE LET r == create_node(m, t, TRUE)
         IN [m |-> r.m, tree |-> [t |-> t, root |-> r.node]]

btree_destroy(m, tr) ==
    IF tr = NoTree THEN m ELSE destroy_node(m, tr.root)

\* split_child without  parent->n++
split_child_nocount(m, parent, i, t) ==
    LET full_child == m.heap[parent].children[i]
        r == create_node(m, t, m.heap[full_child].is_leaf)
        new_child == r.node
        h == r.m.heap
        fc == h[full_child]
        nc == [h[new_child] EXCEPT
                 !.n = t - 1,
                 !.keys = [j \in DOMAIN @ |->
                             IF j < t - 1 THEN fc.keys[j + t] ELSE @[j]],
                 !.children = IF ~fc.is_leaf
                              THEN [j \in DOMAIN @ |->
                                      IF j < t THEN fc.children[j + t] ELSE @[j]]
                              ELSE @]
        p == h[parent]
        p1 == [p EXCEPT
                 !.children = [j \in DOMAIN @ |->
                                 IF j = i + 1 THEN new_child
                                 ELSE IF j >= i + 2 /\ j <= p.n + 1 THEN @[j - 1]
                                 ELSE @[j]],
                 !.keys = [j \in DOMAIN @ |->
                             IF j = i THEN fc.keys[t - 1]
                             ELSE IF j >= i + 1 /\ j <= p.n THEN @[j - 1]
                             ELSE @[j]]]
    IN [heap |-> [h EXCEPT ![new_child] = nc,
                           ![full_child] = [fc EXCEPT !.n = t - 1],
                           ![parent] = p1],
        alloc |-> r.m.alloc]

\* ------------------------------------------------------------ split_child
split_child(m, parent, i, t) ==
    LET full_child == m.heap[parent].children[i]
        r == create_node(m, t, m.heap[full_child].is_leaf)
        new_child == r.node
        h == r.m.heap
        fc == h[full_child]
        nc == [h[new_child] EXCEPT
                 !.n = t - 1,
                 !.keys = [j \in DOMAIN @ |->
                             IF j < t - 1 THEN fc.keys[j + t] ELSE @[j]],
                 !.children = IF ~fc.is_leaf
                              THEN [j \in DOMAIN @ |->
                                      IF j < t THEN fc.children[j + t] ELSE @[j]]
                              ELSE @]
        p == h[parent]
        p1 == [p EXCEPT
                 !.children = [j \in DOMAIN @ |->
                                 IF j = i + 1 THEN new_child
                                 ELSE IF j >= i + 2 /\ j <= p.n + 1 THEN @[j - 1]
                                 ELSE @[j]],
                 !.keys = [j \in DOMAIN @ |->
                             IF j = i THEN fc.keys[t - 1]
                             ELSE IF j >= i + 1 /\ j <= p.n THEN @[j - 1]
                             ELSE @[j]],
                 !.n = p.n + 1]
    IN [heap |-> [h EXCEPT ![new_child] = nc,
                           ![full_child] = [fc EXCEPT !.n = t - 1],
                           ![parent] = p1],
        alloc |-> r.m.alloc]

\* the scan  while (i >= 0 && node->keys[i] > key) i--;
RECURSIVE scan_down(_, _, _)
scan_down(keys, i, key) ==
    IF i >= 0 /\ keys[i] > key THEN scan_down(keys, i - 1, key) ELSE i

\* insert_step that descends without splitting a full child
insert_step_nosplit(m, node, key, t) ==
    LET nd == m.heap[node]
        i0 == scan_down(nd.keys, nd.n - 1, key)
    IN IF nd.is_leaf
       THEN [m |-> [m EXCEPT !.heap[node] =
                      [nd EXCEPT !.keys = [j \in DOMAIN @ |->
                                             IF j = i0 + 1 THEN key
                                             ELSE IF j > i0 + 1 /\ j <= nd.n THEN @[j - 1]
                                             ELSE @[j]],
                                 !.n = nd.n + 1]],
             node |-> NULL, split |-> FALSE, at |-> 0]
       ELSE [m |-> m, node |-> nd.children[i0 + 1], split |-> FALSE, at |-> i0 + 1]

\* -------------------------------------------------------- insert_non_full
\* One invocation of insert_non_full up to its recursive call, which is its
\* last statement: the memory at that call and the node it is made on (NULL
\* when the invocation returns without a call), whether the invocation called
\* split_child and on which child index.
insert_step(m, node, key, t) ==
    LET nd == m.heap[node]
        i0 == scan_down(nd.keys, nd.n - 1, key)
    IN IF nd.is_leaf
       THEN \* keys[i0+1..n-1] move one slot right, key goes to i0+1
            [m |-> [m EXCEPT !.heap[node] =
                      [nd EXCEPT !.keys = [j \in DOMAIN @ |->
                                             IF j = i0 + 1 THEN key
                                             ELSE IF j > i0 + 1 /\ j <= nd.n THEN @[j - 1]
                                             ELSE @[j]],
                                 !.n = nd.n + 1]],
             node |-> NULL, split |-> FALSE, at |-> 0]
       ELSE LET i == i0 + 1
                full == m.heap[nd.children[i]].n = 2 * t - 1
                m1 == IF full THEN split_child(m, node, i, t) ELSE m
                i2 == IF full /\ key > m1.heap[node].keys[i] THEN i + 1 ELSE i
            IN [m |-> m1, node |-> m1.heap[node].children[i2],
                split |-> full, at |-> i]

RECURSIVE insert_non_full(_, _, _, _)
\* (s ranges over one value, so that insert_step is computed once)
insert_non_full(m, node, key, t) ==
    CHOOSE r \in {IF s.node = NULL THEN s.m
                  ELSE insert_non_full(s.m, s.node, key, t) :
                      s \in {insert_step(m, node, key, t)}} : TRUE

\* the invocations insert_non_full(node, key, t) consists of, in order: the
\* memory and the node each is made on, and what insert_step did in it
RECURSIVE insert_calls(_, _, _, _)
insert_calls(m, node, key, t) ==
    LET s == insert_step(m, node, key, t)
    IN <<[m |-> m, node |-> node, split |-> s.split, at |-> s.at, after |-> s.m]>>
       \o (IF s.node = NULL THEN <<>> ELSE insert_calls(s.m, s.node, key, t))

\* btree_insert without  tree->root = new_root
btree_insert_keeproot(m, tr, key) ==
    IF tr = NoTree THEN [m |-> m, tree |-> tr]
    ELSE LET root == tr.root
         IN IF m.heap[root].n = 2 * tr.t - 1
            THEN LET r == create_node(m, tr.t, FALSE)
                     new_root == r.node
                     m1 == [r.m EXCEPT !.heap[new_root].children[0] = root]
                     m2 == split_child(m1, new_root, 0, tr.t)
                     i == IF m2.heap[new_root].keys[0] < key THEN 1 ELSE 0
                     m3 == insert_non_full(m2, m2.heap[new_root].children[i],
                                           key, tr.t)
                 IN [m |-> m3, tree |-> tr]
            ELSE [m |-> insert_non_full(m, root, key, tr.t), tree |-> tr]

\* ------------------------------------------------------------ btree_insert
\* the root split of btree_insert: the memory when split_child(new_root, 0, t)
\* is called (before), when it has returned (m), and new_root (node)
root_split(m, tr) ==
    LET r == create_node(m, tr.t, FALSE)
        new_root == r.node
        m1 == [r.m EXCEPT !.heap[new_root].children[0] = tr.root]
    IN [before |-> m1, m |-> split_child(m1, new_root, 0, tr.t), node |-> new_root]

\* btree_insert without the split of a full root
btree_insert_descent_nosplit(m, tr, key) ==
    [m |-> m, node |-> tr.root, root |-> tr.root]

\* btree_insert up to its call of insert_non_full: the memory, the node the
\* call is made on and the root the tree has when btree_insert returns
btree_insert_descent(m, tr, key) ==
    IF m.heap[tr.root].n = 2 * tr.t - 1
    THEN LET rs == root_split(m, tr)
             i == IF rs.m.heap[rs.node].keys[0] < key THEN 1 ELSE 0
         IN [m |-> rs.m, node |-> rs.m.heap[rs.node].children[i], root |-> rs.node]
    ELSE [m |-> m, node |-> tr.root, root |-> tr.root]

\* returns the machine and the BTree struct after the call
btree_insert(m, tr, key) ==
    IF tr = NoTree THEN [m |-> m, tree |-> tr]
    ELSE CHOOSE r \in {[m |-> insert_non_full(d.m, d.node, key, tr.t),
                        tree |-> [tr EXCEPT !.root = d.root]] :
                           d \in {btree_insert_descent(m, tr, key)}} : TRUE

\* ------------------------------------------- btree_insert, malloc failing
\* The call in which the first f calls of create_node succeed and the next one
\* returns NULL.  Neither btree_insert nor split_child tests the pointer: the
\* next statement stores through it (new_root->children[0] = root,
\* new_child->n = t - 1), and the store traps.  The result is the memory at
\* the trap, with fault = TRUE; fault = FALSE when the call ended before it
\* made f + 1 allocations.
RECURSIVE insert_non_full_oom(_, _, _, _, _)
\* insert_non_full from the key comparison after the split on: m1 is the
\* memory once child i has been split (full) or found with room
insert_non_full_oom_descend(m1, node, i, full, key, t, f) ==
    LET i2 == IF full /\ key > m1.heap[node].keys[i] THEN i + 1 ELSE i
    IN insert_non_full_oom(m1, m1.heap[node].children[i2], key, t,
                           IF full THEN f - 1 ELSE f)

insert_non_full_oom(m, node, key, t, f) ==
    LET nd == m.heap[node]
        i0 == scan_down(nd.keys, nd.n - 1, key)
    IN IF nd.is_leaf
       THEN [m |-> insert_non_full(m, node, key, t), fault |-> FALSE]
       ELSE LET i == i0 + 1
                full == m.heap[nd.children[i]].n = 2 * t - 1
            IN IF full /\ f = 0
               THEN \* split_child: new_child == NULL, new_child->n traps
                    [m |-> m, fault |-> TRUE]
               ELSE insert_non_full_oom_descend(
                        IF full THEN split_child(m, node, i, t) ELSE m,
                        node, i, full, key, t, f)

\* the end of btree_insert: tree->root = new_root is its last statement, which
\* a trap in insert_non_full (r3.fault) does not reach
btree_insert_oom_return(r3, tr, new_root) ==
    [m |-> r3.m,
     tree |-> IF r3.fault THEN tr ELSE [tr EXCEPT !.root = new_root],
     fault |-> r3.fault]

\* btree_insert after the root split: m2 is the memory once the old root has
\* been split under new_root
btree_insert_oom_split(m2, tr, new_root, key, f) ==
    LET i == IF m2.heap[new_root].keys[0] < key THEN 1 ELSE 0
    IN btree_insert_oom_return(
           insert_non_full_oom(m2, m2.heap[new_root].children[i], key, tr.t, f),
           tr, new_root)

\* btree_insert once new_root is allocated: r is what create_node returned
btree_insert_oom_root(r, tr, key, f) ==
    LET new_root == r.node
        m1 == [r.m EXCEPT !.heap[new_root].children[0] = tr.root]
    IN IF f = 0
       THEN \* split_child(new_root, 0, t) traps
            [m |-> m1, tree |-> tr, fault |-> TRUE]
       ELSE btree_insert_oom_split(split_child(m1, new_root, 0, tr.t),
                                   tr, new_root, key, f - 1)

\* returns the machine, the BTree struct and whether the call trapped
btree_insert_oom(m, tr, key, f) ==
    IF tr = NoTree THEN [m |-> m, tree |-> tr, fault |-> FALSE]
    ELSE IF m.heap[tr.root].n = 2 * tr.t - 1
    THEN IF f = 0
         THEN \* new_root == NULL, new_root->children[0] traps
              [m |-> m, tree |-> tr, fault |-> TRUE]
         ELSE btree_insert_oom_root(create_node(m, tr.t, FALSE), tr, key, f - 1)
    ELSE btree_insert_oom_return(
             insert_non_full_oom(m, tr.root, key, tr.t, f), tr, tr.root)

\* ------------------------------------------------------------ btree_search
\* the scan  while (i < node->n && key > node->keys[i]) i++;
RECURSIVE scan_up(_, _, _, _)
scan_up(keys, n, i, key) ==
    IF i < n /\ key > keys[i] THEN scan_up(keys, n, i + 1, key) ELSE i

\* btree_search that compares the key only in leaves
RECURSIVE btree_search_leafonly(_, _, _)
btree_search_leafonly(h, node, key) ==
    IF node = NULL THEN [node |-> NULL, idx |-> 0]
    ELSE LET nd == h[node]
             i == scan_up(nd.keys, nd.n, 0, key)
         IN IF nd.is_leaf
            THEN IF i < nd.n /\ key = nd.keys[i] THEN [node |-> node, idx |-> i]
                 ELSE [node |-> NULL, idx |-> 0]
            ELSE btree_search_leafonly(h, nd.children[i], key)

\* one invocation of btree_search on a node that skips the level below it
search_step_skip(h, node, key) ==
    LET nd == h[node]
        i == scan_up(nd.keys, nd.n, 0, key)
    IN IF i < nd.n /\ key = nd.keys[i]
       THEN [done |-> TRUE, node |-> node, idx |-> i]
       ELSE IF nd.is_leaf THEN [done |-> TRUE, node |-> NULL, idx |-> 0]
       ELSE IF h[nd.children[i]].is_leaf
       THEN [done |-> FALSE, node |-> nd.children[i], idx |-> 0]
       ELSE [done |-> FALSE, node |-> h[nd.children[i]].children[0], idx |-> 0]

\* one invocation of btree_search on a node, up to its return or its recursive
\* call: done with the result, or not done with the node the call is made on
search_step(h, node, key) ==
    LET nd == h[node]
        i == scan_up(nd.keys, nd.n, 0, key)
    IN IF i < nd.n /\ key = nd.keys[i]
       THEN [done |-> TRUE, node |-> node, idx |-> i]
       ELSE IF nd.is_leaf THEN [done |-> TRUE, node |-> NULL, idx |-> 0]
       ELSE [done |-> FALSE, node |-> nd.children[i], idx |-> 0]

\* returns [node, idx]; node = NULL when the key is not found
RECURSIVE btree_search(_, _, _)
btree_search(h, node, key) ==
    IF node = NULL THEN [node |-> NULL, idx |-> 0]
    ELSE LET s == search_step(h, node, key)
         IN IF s.done THEN [node |-> s.node, idx |-> s.idx]
            ELSE btree_search(h, s.node, key)

\* the nodes btree_search(node, key) is invoked on, in order
RECURSIVE search_calls(_, _, _)
search_calls(h, node, key) ==
    IF node = NULL THEN <<>>
    ELSE LET s == search_step(h, node, key)
         IN <<node>> \o (IF s.done THEN <<>> ELSE search_calls(h, s.node, key))

\* ---------------------------------------------------------------- find_key
RECURSIVE find_key_from(_, _, _)
find_key_from(nd, idx, key) ==
    IF idx < nd.n /\ nd.keys[idx] < key THEN find_key_from(nd, idx + 1, key) ELSE idx

find_key(nd, key) == find_key_from(nd, 0, key)

\* --------------------------------------------- get_predecessor / successor
RECURSIVE rightmost_leaf(_, _)
rightmost_leaf(h, cur) ==
    IF ~h[cur].is_leaf THEN rightmost_leaf(h, h[cur].children[h[cur].n]) ELSE cur

\* get_predecessor that returns the first key of the leaf it reaches
get_predecessor_first(h, node, idx) ==
    LET cur == rightmost_leaf(h, h[node].children[idx])
    IN h[cur].keys[0]

get_predecessor(h, node, idx) ==
    LET cur == rightmost_leaf(h, h[node].children[idx])
    IN h[cur].keys[h[cur].n - 1]

RECURSIVE leftmost_leaf(_, _)
leftmost_leaf(h, cur) ==
    IF ~h[cur].is_leaf THEN leftmost_leaf(h, h[cur].children[0]) ELSE cur

\* get_successor that returns the last key of the leaf it reaches
get_successor_last(h, node, idx) ==
    LET cur == leftmost_leaf(h, h[node].children[idx + 1])
    IN h[cur].keys[h[cur].n - 1]

get_successor(h, node, idx) ==
    LET cur == leftmost_leaf(h, h[node].children[idx + 1])
    IN h[cur].keys[0]

\* merge without the three free() calls on the absorbed sibling
merge_nofree(m, node, idx, t) ==
    LET nd == m.heap[node]
        left == nd.children[idx]
        right == nd.children[idx + 1]
        l == m.heap[left]
        r == m.heap[right]
        l1 == [l EXCEPT
                 !.keys = [j \in DOMAIN @ |->
                             IF j = t - 1 THEN nd.keys[idx]
                             ELSE IF j >= t /\ j < t + r.n THEN r.keys[j - t]
                             ELSE @[j]],
                 !.children = IF ~l.is_leaf
                              THEN [j \in DOMAIN @ |->
                                      IF j >= t /\ j <= t + r.n
                                      THEN r.children[j - t] ELSE @[j]]
                              ELSE @,
                 !.n = 2 * t - 1]
        nd1 == [nd EXCEPT
                  !.keys = [j \in DOMAIN @ |->
                              IF j >= idx /\ j < nd.n - 1 THEN @[j + 1] ELSE @[j]],
                  !.children = [j \in DOMAIN @ |->
                                  IF j >= idx + 1 /\ j < nd.n THEN @[j + 1] ELSE @[j]],
                  !.n = nd.n - 1]
    IN [m EXCEPT !.heap[left] = l1, !.heap[node] = nd1]

\* merge without  left->keys[t - 1] = node->keys[idx]
merge_nosep(m, node, idx, t) ==
    LET nd == m.heap[node]
        left == nd.children[idx]
        right == nd.children[idx + 1]
        l == m.heap[left]
        r == m.heap[right]
        l1 == [l EXCEPT
                 !.keys = [j \in DOMAIN @ |->
                             IF j >= t /\ j < t + r.n THEN r.keys[j - t]
                             ELSE @[j]],
                 !.children = IF ~l.is_leaf
                              THEN [j \in DOMAIN @ |->
                                      IF j >= t /\ j <= t + r.n
                                      THEN r.children[j - t] ELSE @[j]]
                              ELSE @,
                 !.n = 2 * t - 1]
        nd1 == [nd EXCEPT
                  !.keys = [j \in DOMAIN @ |->
                              IF j >= idx /\ j < nd.n - 1 THEN @[j + 1] ELSE @[j]],
                  !.children = [j \in DOMAIN @ |->
                                  IF j >= idx + 1 /\ j < nd.n THEN @[j + 1] ELSE @[j]],
                  !.n = nd.n - 1]
    IN free_node([m EXCEPT !.heap[left] = l1, !.heap[node] = nd1], right)

\* merge without the left shift of the keys of node
merge_nokeyshift(m, node, idx, t) ==
    LET nd == m.heap[node]
        left == nd.children[idx]
        right == nd.children[idx + 1]
        l == m.heap[left]
        r == m.heap[right]
        l1 == [l EXCEPT
                 !.keys = [j \in DOMAIN @ |->
                             IF j = t - 1 THEN nd.keys[idx]
                             ELSE IF j >= t /\ j < t + r.n THEN r.keys[j - t]
                             ELSE @[j]],
                 !.children = IF ~l.is_leaf
                              THEN [j \in DOMAIN @ |->
                                      IF j >= t /\ j <= t + r.n
                                      THEN r.children[j - t] ELSE @[j]]
                              ELSE @,
                 !.n = 2 * t - 1]
        nd1 == [nd EXCEPT
                  !.children = [j \in DOMAIN @ |->
                                  IF j >= idx + 1 /\ j < nd.n THEN @[j + 1] ELSE @[j]],
                  !.n = nd.n - 1]
    IN free_node([m EXCEPT !.heap[left] = l1, !.heap[node] = nd1], right)

\* ------------------------------------------------------------------- merge
merge(m, node, idx, t) ==
    LET nd == m.heap[node]
        left == nd.children[idx]
        right == nd.children[idx + 1]
        l == m.heap[left]
        r == m.heap[right]
        l1 == [l EXCEPT
                 !.keys = [j \in DOMAIN @ |->
                             IF j = t - 1 THEN nd.keys[idx]
                             ELSE IF j >= t /\ j < t + r.n THEN r.keys[j - t]
                             ELSE @[j]],
                 !.children = IF ~l.is_leaf
                              THEN [j \in DOMAIN @ |->
                                      IF j >= t /\ j <= t + r.n
                                      THEN r.children[j - t] ELSE @[j]]
                              ELSE @,
                 !.n = 2 * t - 1]
        nd1 == [nd EXCEPT
                  !.keys = [j \in DOMAIN @ |->
                              IF j >= idx /\ j < nd.n - 1 THEN @[j + 1] ELSE @[j]],
                  !.children = [j \in DOMAIN @ |->
                                  IF j >= idx + 1 /\ j < nd.n THEN @[j + 1] ELSE @[j]],
                  !.n = nd.n - 1]
    IN free_node([m EXCEPT !.heap[left] = l1, !.heap[node] = nd1], right)

\* borrow_from_left without  sibling->n--
borrow_from_left_keep(m, node, idx) ==
    LET nd == m.heap[node]
        child == nd.children[idx]
        sibling == nd.children[idx - 1]
        c == m.heap[child]
        s == m.heap[sibling]
        c1 == [c EXCEPT
                 !.keys = [j \in DOMAIN @ |->
                             IF j = 0 THEN nd.keys[idx - 1]
                             ELSE IF j <= c.n THEN @[j - 1] ELSE @[j]],
                 !.children = IF ~c.is_leaf
                              THEN [j \in DOMAIN @ |->
                                      IF j = 0 THEN s.children[s.n]
                                      ELSE IF j <= c.n + 1 THEN @[j - 1] ELSE @[j]]
                              ELSE @,
                 !.n = c.n + 1]
    IN [m EXCEPT !.heap[child] = c1,
                 !.heap[node].keys[idx - 1] = s.keys[s.n - 1]]

\* borrow_from_left without  node->keys[idx - 1] = sibling->keys[sibling->n - 1]
borrow_from_left_nosep(m, node, idx) ==
    LET nd == m.heap[node]
        child == nd.children[idx]
        sibling == nd.children[idx - 1]
        c == m.heap[child]
        s == m.heap[sibling]
        c1 == [c EXCEPT
                 !.keys = [j \in DOMAIN @ |->
                             IF j = 0 THEN nd.keys[idx - 1]
                             ELSE IF j <= c.n THEN @[j - 1] ELSE @[j]],
                 !.children = IF ~c.is_leaf
                              THEN [j \in DOMAIN @ |->
                                      IF j = 0 THEN s.children[s.n]
                                      ELSE IF j <= c.n + 1 THEN @[j - 1] ELSE @[j]]
                              ELSE @,
                 !.n = c.n + 1]
    IN [m EXCEPT !.heap[child] = c1,
                 !.heap[sibling].n = s.n - 1]

\* -------------------------------------------------------- borrow_from_left
borrow_from_left(m, node, idx) ==
    LET nd == m.heap[node]
        child == nd.children[idx]
        sibling == nd.children[idx - 1]
        c == m.heap[child]
        s == m.heap[sibling]
        c1 == [c EXCEPT
                 !.keys = [j \in DOMAIN @ |->
                             IF j = 0 THEN nd.keys[idx - 1]
                             ELSE IF j <= c.n THEN @[j - 1] ELSE @[j]],
                 !.children = IF ~c.is_leaf
                              THEN [j \in DOMAIN @ |->
                                      IF j = 0 THEN s.children[s.n]
                                      ELSE IF j <= c.n + 1 THEN @[j - 1] ELSE @[j]]
                              ELSE @,
                 !.n = c.n + 1]
    IN [m EXCEPT !.heap[child] = c1,
                 !.heap[node].keys[idx - 1] = s.keys[s.n - 1],
                 !.heap[sibling].n = s.n - 1]

\* borrow_from_right without the left shift of the sibling's keys
borrow_from_right_noshift(m, node, idx) ==
    LET nd == m.heap[node]
        child == nd.children[idx]
        sibling == nd.children[idx + 1]
        c == m.heap[child]
        s == m.heap[sibling]
        c1 == [c EXCEPT
                 !.keys[c.n] = nd.keys[idx],
                 !.children = IF ~c.is_leaf
                              THEN [@ EXCEPT ![c.n + 1] = s.children[0]] ELSE @,
                 !.n = c.n + 1]
        s1 == [s EXCEPT
                 !.children = IF ~s.is_leaf
                              THEN [j \in DOMAIN @ |->
                                      IF j < s.n THEN @[j + 1] ELSE @[j]]
                              ELSE @,
                 !.n = s.n - 1]
    IN [m EXCEPT !.heap[child] = c1,
                 !.heap[node].keys[idx] = s.keys[0],
                 !.heap[sibling] = s1]

\* ------------------------------------------------------- borrow_from_right
borrow_from_right(m, node, idx) ==
    LET nd == m.heap[node]
        child == nd.children[idx]
        sibling == nd.children[idx + 1]
        c == m.heap[child]
        s == m.heap[sibling]
        c1 == [c EXCEPT
                 !.keys[c.n] = nd.keys[idx],
                 !.children = IF ~c.is_leaf
                              THEN [@ EXCEPT ![c.n + 1] = s.children[0]] ELSE @,
                 !.n = c.n + 1]
        s1 == [s EXCEPT
                 !.keys = [j \in DOMAIN @ |->
                             IF j < s.n - 1 THEN @[j + 1] ELSE @[j]],
                 !.children = IF ~s.is_leaf
                              THEN [j \in DOMAIN @ |->
                                      IF j < s.n THEN @[j + 1] ELSE @[j]]
                              ELSE @,
                 !.n = s.n - 1]
    IN [m EXCEPT !.heap[child] = c1,
                 !.heap[node].keys[idx] = s.keys[0],
                 !.heap[sibling] = s1]

\* fill that tries the right sibling before the left one
fill_rightfirst(m, node, idx, t) ==
    LET nd == m.heap[node]
    IN IF idx < nd.n /\ m.heap[nd.children[idx + 1]].n >= t
       THEN borrow_from_right(m, node, idx)
       ELSE IF idx > 0 /\ m.heap[nd.children[idx - 1]].n >= t
       THEN borrow_from_left(m, node, idx)
       ELSE IF idx < nd.n THEN merge(m, node, idx, t)
       ELSE merge(m, node, idx - 1, t)

\* fill that neither borrows nor merges
fill_noop(m, node, idx, t) == m

\* -------------------------------------------------------------------- fill
fill(m, node, idx, t) ==
    LET nd == m.heap[node]
    IN IF idx > 0 /\ m.heap[nd.children[idx - 1]].n >= t
       THEN borrow_from_left(m, node, idx)
       ELSE IF idx < nd.n /\ m.heap[nd.children[idx + 1]].n >= t
       THEN borrow_from_right(m, node, idx)
       ELSE IF idx < nd.n THEN merge(m, node, idx, t)
       ELSE merge(m, node, idx - 1, t)

RECURSIVE delete_internal(_, _, _, _)
\* delete_internal that fills a child holding t keys as well (n <= t)
delete_internal_eager(m, node, key, t) ==
    LET nd == m.heap[node]
        idx == find_key(nd, key)
    IN IF idx < nd.n /\ nd.keys[idx] = key
       THEN IF nd.is_leaf
            THEN \* Case 1
                 [m EXCEPT !.heap[node] =
                     [nd EXCEPT !.keys = [j \in DOMAIN @ |->
                                            IF j >= idx /\ j < nd.n - 1
                                            THEN @[j + 1] ELSE @[j]],
                                !.n = nd.n - 1]]
            ELSE IF m.heap[nd.children[idx]].n >= t
            THEN \* Case 2a
                 LET pred == get_predecessor(m.heap, node, idx)
                 IN delete_internal([m EXCEPT !.heap[node].keys[idx] = pred],
                                    nd.children[idx], pred, t)
            ELSE IF m.heap[nd.children[idx + 1]].n >= t
            THEN \* Case 2b
                 LET succ == get_successor(m.heap, node, idx)
                 IN delete_internal([m EXCEPT !.heap[node].keys[idx] = succ],
                                    nd.children[idx + 1], succ, t)
            ELSE \* Case 2c
                 LET m1 == merge(m, node, idx, t)
                 IN delete_internal(m1, m1.heap[node].children[idx], key, t)
       ELSE IF nd.is_leaf THEN m
       ELSE \* Case 3
            LET is_last_child == (idx = nd.n)
                m1 == IF m.heap[nd.children[idx]].n <= t
                      THEN fill(m, node, idx, t) ELSE m
            IN IF is_last_child /\ idx > m1.heap[node].n
               THEN delete_internal(m1, m1.heap[node].children[idx - 1], key, t)
               ELSE delete_internal(m1, m1.heap[node].children[idx], key, t)

\* delete_step that fills a child only below t - 1 keys
delete_step_latefill(m, node, key, t) ==
    LET nd == m.heap[node]
        idx == find_key(nd, key)
    IN IF idx < nd.n /\ nd.keys[idx] = key
       THEN IF nd.is_leaf
            THEN \* Case 1
                 [m |-> [m EXCEPT !.heap[node] =
                           [nd EXCEPT !.keys = [j \in DOMAIN @ |->
                                                  IF j >= idx /\ j < nd.n - 1
                                                  THEN @[j + 1] ELSE @[j]],
                                      !.n = nd.n - 1]],
                  node |-> NULL, key |-> key]
            ELSE IF m.heap[nd.children[idx]].n >= t
            THEN \* Case 2a
                 LET pred == get_predecessor(m.heap, node, idx)
                 IN [m |-> [m EXCEPT !.heap[node].keys[idx] = pred],
                     node |-> nd.children[idx], key |-> pred]
            ELSE IF m.heap[nd.children[idx + 1]].n >= t
            THEN \* Case 2b
                 LET succ == get_successor(m.heap, node, idx)
                 IN [m |-> [m EXCEPT !.heap[node].keys[idx] = succ],
                     node |-> nd.children[idx + 1], key |-> succ]
            ELSE \* Case 2c
                 LET m1 == merge(m, node, idx, t)
                 IN [m |-> m1, node |-> m1.heap[node].children[idx], key |-> key]
       ELSE IF nd.is_leaf THEN [m |-> m, node |-> NULL, key |-> key]
       ELSE \* Case 3
            LET is_last_child == (idx = nd.n)
                m1 == IF m.heap[nd.children[idx]].n < t - 1
                      THEN fill(m, node, idx, t) ELSE m
            IN IF is_last_child /\ idx > m1.heap[node].n
               THEN [m |-> m1, node |-> m1.heap[node].children[idx - 1], key |-> key]
               ELSE [m |-> m1, node |-> m1.heap[node].children[idx], key |-> key]

\* delete_step that descends into children[idx] whatever fill did
delete_step_noadjust(m, node, key, t) ==
    LET nd == m.heap[node]
        idx == find_key(nd, key)
    IN IF idx < nd.n /\ nd.keys[idx] = key
       THEN IF nd.is_leaf
            THEN \* Case 1
                 [m |-> [m EXCEPT !.heap[node] =
                           [nd EXCEPT !.keys = [j \in DOMAIN @ |->
                                                  IF j >= idx /\ j < nd.n - 1
                                                  THEN @[j + 1] ELSE @[j]],
                                      !.n = nd.n - 1]],
                  node |-> NULL, key |-> key]
            ELSE IF m.heap[nd.children[idx]].n >= t
            THEN \* Case 2a
                 LET pred == get_predecessor(m.heap, node, idx)
                 IN [m |-> [m EXCEPT !.heap[node].keys[idx] = pred],
                     node |-> nd.children[idx], key |-> pred]
            ELSE IF m.heap[nd.children[idx + 1]].n >= t
            THEN \* Case 2b
                 LET succ == get_successor(m.heap, node, idx)
                 IN [m |-> [m EXCEPT !.heap[node].keys[idx] = succ],
                     node |-> nd.children[idx + 1], key |-> succ]
            ELSE \* Case 2c
                 LET m1 == merge(m, node, idx, t)
                 IN [m |-> m1, node |-> m1.heap[node].children[idx], key |-> key]
       ELSE IF nd.is_leaf THEN [m |-> m, node |-> NULL, key |-> key]
       ELSE \* Case 3
            LET is_last_child == (idx = nd.n)
                m1 == IF m.heap[nd.children[idx]].n < t
                      THEN fill(m, node, idx, t) ELSE m
            IN IF FALSE
               THEN [m |-> m1, node |-> m1.heap[node].children[idx - 1], key |-> key]
               ELSE [m |-> m1, node |-> m1.heap[node].children[idx], key |-> key]

\* --------------------------------------------------------- delete_internal
\* One invocation of delete_internal up to its recursive call, which is the
\* last statement of every case: the memory at the call and the node and key
\* it is made with; node = NULL when the invocation returns without a call.
delete_step(m, node, key, t) ==
    LET nd == m.heap[node]
        idx == find_key(nd, key)
    IN IF idx < nd.n /\ nd.keys[idx] = key
       THEN IF nd.is_leaf
            THEN \* Case 1
                 [m |-> [m EXCEPT !.heap[node] =
                           [nd EXCEPT !.keys = [j \in DOMAIN @ |->
                                                  IF j >= idx /\ j < nd.n - 1
                                                  THEN @[j + 1] ELSE @[j]],
                                      !.n = nd.n - 1]],
                  node |-> NULL, key |-> key]
            ELSE IF m.heap[nd.children[idx]].n >= t
            THEN \* Case 2a
                 LET pred == get_predecessor(m.heap, node, idx)
                 IN [m |-> [m EXCEPT !.heap[node].keys[idx] = pred],
                     node |-> nd.children[idx], key |-> pred]
            ELSE IF m.heap[nd.children[idx + 1]].n >= t
            THEN \* Case 2b
                 LET succ == get_successor(m.heap, node, idx)
                 IN [m |-> [m EXCEPT !.heap[node].keys[idx] = succ],
                     node |-> nd.children[idx + 1], key |-> succ]
            ELSE \* Case 2c
                 LET m1 == merge(m, node, idx, t)
                 IN [m |-> m1, node |-> m1.heap[node].children[idx], key |-> key]
       ELSE IF nd.is_leaf THEN [m |-> m, node |-> NULL, key |-> key]
       ELSE \* Case 3
            LET is_last_child == (idx = nd.n)
                m1 == IF m.heap[nd.children[idx]].n < t
                      THEN fill(m, node, idx, t) ELSE m
            IN IF is_last_child /\ idx > m1.heap[node].n
               THEN [m |-> m1, node |-> m1.heap[node].children[idx - 1], key |-> key]
               ELSE [m |-> m1, node |-> m1.heap[node].children[idx], key |-> key]

delete_internal(m, node, key, t) ==
    LET s == delete_step(m, node, key, t)
    IN IF s.node = NULL THEN s.m ELSE delete_internal(s.m, s.node, s.key, t)

\* the recursive invocations delete_internal(node, key, t) makes, in order
RECURSIVE delete_calls(_, _, _, _)
delete_calls(m, node, key, t) ==
    LET s == delete_step(m, node, key, t)
    IN IF s.node = NULL THEN <<>>
       ELSE <<s>> \o delete_calls(s.m, s.node, s.key, t)

\* btree_delete that replaces an internal root holding at most one key
btree_delete_shrinkearly(m, tr, key) ==
    IF tr = NoTree \/ tr.root = NULL THEN [m |-> m, tree |-> tr]
    ELSE IF m.heap[tr.root].n = 0 THEN [m |-> m, tree |-> tr]
    ELSE LET m1 == delete_internal(m, tr.root, key, tr.t)
             old_root == tr.root
         IN IF m1.heap[old_root].n <= 1 /\ ~m1.heap[old_root].is_leaf
            THEN [m |-> free_node(m1, old_root),
                  tree |-> [tr EXCEPT !.root = m1.heap[old_root].children[0]]]
            ELSE [m |-> m1, tree |-> tr]

\* btree_delete that leaves an emptied internal root in place
btree_delete_noshrink(m, tr, key) ==
    IF tr = NoTree \/ tr.root = NULL THEN [m |-> m, tree |-> tr]
    ELSE IF m.heap[tr.root].n = 0 THEN [m |-> m, tree |-> tr]
    ELSE [m |-> delete_internal(m, tr.root, key, tr.t), tree |-> tr]

\* ------------------------------------------------------------ btree_delete
btree_delete(m, tr, key) ==
    IF tr = NoTree \/ tr.root = NULL THEN [m |-> m, tree |-> tr]
    ELSE IF m.heap[tr.root].n = 0 THEN [m |-> m, tree |-> tr]
    ELSE LET m1 == delete_internal(m, tr.root, key, tr.t)
             old_root == tr.root
         IN IF m1.heap[old_root].n = 0 /\ ~m1.heap[old_root].is_leaf
            THEN [m |-> free_node(m1, old_root),
                  tree |-> [tr EXCEPT !.root = m1.heap[old_root].children[0]]]
            ELSE [m |-> m1, tree |-> tr]

\* ---------------------------------------------------------- btree_traverse
\* the keys in the order printf emits them
RECURSIVE btree_traverse(_, _)
RECURSIVE traverse_from(_, _, _)
traverse_from(h, node, i) ==
    LET nd == h[node]
    IN IF i < nd.n
       THEN (IF ~nd.is_leaf THEN btree_traverse(h, nd.children[i]) ELSE <<>>)
            \o <<nd.keys[i]>> \o traverse_from(h, node, i + 1)
       ELSE IF ~nd.is_leaf THEN btree_traverse(h, nd.children[i]) ELSE <<>>

btree_traverse(h, node) ==
    IF node = NULL THEN <<>> ELSE traverse_from(h, node, 0)

\* ------------------------------------------------------------ btree_height
RECURSIVE height_from(_, _, _)
height_from(h, node, height) ==
    IF ~h[node].is_leaf THEN height_from(h, h[node].children[0], height + 1)
    ELSE height

btree_height(h, tr) ==
    IF tr = NoTree \/ tr.root = NULL THEN 0
    ELSE IF h[tr.root].n = 0 THEN 0
    ELSE height_from(h, tr.root, 1)

\* ------------------------------------------------- count_node / btree_count
RECURSIVE count_node(_, _)
RECURSIVE count_children(_, _, _)
count_children(h, node, i) ==
    IF i > h[node].n THEN 0
    ELSE count_node(h, h[node].children[i]) + count_children(h, node, i + 1)

count_node(h, node) ==
    IF node = NULL THEN 0
    ELSE h[node].n + (IF ~h[node].is_leaf THEN count_children(h, node, 0) ELSE 0)

btree_count(h, tr) ==
    IF tr = NoTree \/ tr.root = NULL THEN 0 ELSE count_node(h, tr.root)

\* ---------------------------------------------------------- validate_node
\* returns the depth of the leaves, or -1 when a check fails
RECURSIVE validate_node(_, _, _, _, _, _, _, _)
RECURSIVE validate_children(_, _, _, _, _, _, _, _)
\* the loop over children[0..n]; leaf_depth is set by the first child
validate_children(h, node, t, min, max, leaf_depth, current_depth, i) ==
    LET nd == h[node]
    IN IF i > nd.n THEN leaf_depth
       ELSE IF nd.children[i] = NULL THEN -1
       ELSE LET child_min == IF i = 0 THEN min ELSE nd.keys[i - 1]
                child_max == IF i = nd.n THEN max ELSE nd.keys[i]
                depth == validate_node(h, nd.children[i], t, child_min, child_max,
                                       leaf_depth, current_depth + 1, FALSE)
            IN IF depth = -1 THEN -1
               ELSE validate_children(h, node, t, min, max,
                                      IF leaf_depth = -1 THEN depth ELSE leaf_depth,
                                      current_depth, i + 1)

validate_node(h, node, t, min, max, expected_depth, current_depth, is_root) ==
    IF node = NULL THEN -1
    ELSE LET nd == h[node]
         IN IF is_root /\ nd.n > 2 * t - 1 THEN -1
            ELSE IF ~is_root /\ (nd.n < t - 1 \/ nd.n > 2 * t - 1) THEN -1
            ELSE IF \E i \in 0..(nd.n - 1) :
                       \/ nd.keys[i] <= min
                       \/ nd.keys[i] >= max
                       \/ (i > 0 /\ nd.keys[i] <= nd.keys[i - 1])
                 THEN -1
            ELSE IF nd.is_leaf
                 THEN IF expected_depth # -1 /\ current_depth # expected_depth
                      THEN -1 ELSE current_depth
            ELSE validate_children(h, node, t, min, max, expected_depth,
                                   current_depth, 0)

\* ---------------------------------------------------------- btree_validate
btree_validate(h, tr) ==
    IF tr = NoTree THEN FALSE
    ELSE IF tr.root = NULL THEN FALSE
    ELSE IF h[tr.root].n = 0 /\ h[tr.root].is_leaf THEN TRUE
    ELSE validate_node(h, tr.root, tr.t, INT_MIN, INT_MAX, -1, 0, TRUE) # -1

\* ------------------------------------------------------ state abstraction
\* A slot beyond a node's key count holds a value no later call reads before
\* writing it: such slots are reset to the content create_node leaves in them.
Scrub(m) ==
    [m EXCEPT !.heap = [a \in Addr |->
        IF a \notin m.alloc THEN @[a]
        ELSE [@[a] EXCEPT
                !.keys = [j \in DOMAIN @ |-> IF j >= m.heap[a].n THEN Undef ELSE @[j]],
                !.children = [j \in DOMAIN @ |->
                                IF m.heap[a].is_leaf \/ j > m.heap[a].n
                                THEN NULL ELSE @[j]]]]]

\* the children a traversal follows from a cell
ChildSeq(h, a) ==
    IF h[a].is_leaf THEN <<>> ELSE [i \in 1..(h[a].n + 1) |-> h[a].children[i - 1]]

\* addresses reachable from the stack, in depth-first preorder
RECURSIVE Preorder(_, _, _)
Preorder(h, stack, acc) ==
    IF stack = <<>> THEN acc
    ELSE IF Head(stack) = NULL \/ Head(stack) \in Range(acc)
    THEN Preorder(h, Tail(stack), acc)
    ELSE Preorder(h, ChildSeq(h, Head(stack)) \o Tail(stack), Append(acc, Head(stack)))

\* The value of an address returned by malloc is unspecified and the program
\* never inspects it: the cells are renumbered, the nodes reachable from the
\* root first (in preorder), the other addresses after them in their order.
Canon(m, tr) ==
    LET pre == Preorder(m.heap, <<tr.root>>, <<>>)
        rest == Addr \ Range(pre)
        new == [a \in Addr |->
                  IF a \in rest THEN Len(pre) + Cardinality({b \in rest : b <= a})
                  ELSE CHOOSE i \in 1..Len(pre) : pre[i] = a]
        old == [i \in Addr |->
                  IF i <= Len(pre) THEN pre[i] ELSE CHOOSE a \in rest : new[a] = i]
        ren(c) == IF c = NULL THEN NULL ELSE new[c]
    IN [m |-> [heap |-> [i \in Addr |->
                           IF m.heap[old[i]] = NoCell THEN NoCell
                           ELSE [m.heap[old[i]] EXCEPT
                                   !.children = [j \in DOMAIN @ |-> ren(@[j])]]],
               alloc |-> {new[a] : a \in m.alloc}],
        tree |-> [tr EXCEPT !.root = ren(@)]]

\* the state a public call leaves behind
Finish(r) == Canon(Scrub(r.m), r.tree)

Mach == [heap |-> heap, alloc |-> alloc]

\* the keys the tree holds, as traverse enumerates them
InOrder == btree_traverse(heap, tree.root)
KeySet == Range(InOrder)

\* ---------------------------------------------- test_delete_with_merge
\* Progress of the run along test_delete_with_merge, after the call op(k):
\* step 0 is btree_create(2), steps 1..10 are btree_insert of 1..10, steps
\* 11..15 are btree_delete of 1..5; step -1 is any other run.  height_before
\* is the test's local of that name, read once the inserts are done.
MergeTestNext(op, k) ==
    LET i == mergetest.step
        s == IF op = "create" THEN (IF k = 2 THEN 0 ELSE -1)
             ELSE IF op = "insert" /\ i \in 0..9 /\ k = i + 1 THEN i + 1
             ELSE IF op = "delete" /\ i \in 10..14 /\ k = i - 9 THEN i + 1
             ELSE -1
    IN [step |-> s,
        height_before |-> IF s = 10 THEN btree_height(heap', tree')
                          ELSE IF s > 10 THEN mergetest.height_before
                          ELSE 0]

\* ----------------------------------------------------------------- actions
Init ==
    /\ tree = NoTree
    /\ heap = [a \in Addr |-> NoCell]
    /\ alloc = {}
    /\ last = [op |-> "none", hit |-> FALSE]
    /\ model = {}
    /\ ndup = 0
    /\ mergetest = [step |-> -1, height_before |-> 0]

Create(d) ==
    /\ tree = NoTree
    /\ LET r == Finish(btree_create(Mach, d))
       IN /\ tree' = r.tree
          /\ heap' = r.m.heap
          /\ alloc' = r.m.alloc
    /\ last' = [op |-> "create", hit |-> d >= 2]
    /\ model' = {}
    /\ ndup' = 0
    /\ mergetest' = MergeTestNext("create", d)

Destroy ==
    /\ tree # NoTree
    /\ LET m1 == btree_destroy(Mach, tree)
       IN /\ heap' = m1.heap
          /\ alloc' = m1.alloc
    /\ tree' = NoTree
    /\ last' = [op |-> "destroy", hit |-> FALSE]
    /\ model' = {}
    /\ ndup' = 0
    /\ mergetest' = MergeTestNext("destroy", 0)

\* btree_insert(tree, k) for any key
Insert(k) ==
    /\ tree # NoTree
    /\ LET ks == KeySet
       IN /\ k \in ks => ndup < MaxDups
          /\ (ndup > 0 \/ k \in ks) => btree_count(heap, tree) < MaxDupCount
          /\ last' = [op |-> "insert", hit |-> k \in ks]
          /\ ndup' = IF k \in ks THEN ndup + 1 ELSE ndup
    /\ LET r == Finish(btree_insert(Mach, tree, k))
       IN /\ tree' = r.tree
          /\ heap' = r.m.heap
          /\ alloc' = r.m.alloc
    /\ model' = model \cup {k}
    /\ mergetest' = MergeTestNext("insert", k)

\* btree_insert(tree, k) for a key the tree does not hold
InsertNew(k) ==
    /\ ndup = 0
    /\ k \notin model
    /\ Insert(k)

\* btree_delete(tree, k) for any key
Delete(k) ==
    /\ tree # NoTree
    /\ LET r == Finish(btree_delete(Mach, tree, k))
       IN /\ tree' = r.tree
          /\ heap' = r.m.heap
          /\ alloc' = r.m.alloc
    /\ last' = [op |-> "delete", hit |-> k \in KeySet]
    /\ model' = model \ {k}
    /\ ndup' = ndup
    /\ mergetest' = MergeTestNext("delete", k)

Next ==
    \/ \E d \in Degrees : Create(d)
    \/ Destroy
    \/ \E k \in Keys : Insert(k)
    \/ \E k \in Keys : Delete(k)

Spec == Init /\ [][Next]_vars

NextDistinct ==
    \/ \E d \in Degrees : Create(d)
    \/ Destroy
    \/ \E k \in Keys : InsertNew(k)
    \/ \E k \in Keys : Delete(k)

SpecDistinct == Init /\ [][NextDistinct]_vars

\* the memory and the BTree struct a call leaves behind
Lands(c) ==
    /\ tree' = c.tree
    /\ heap' = c.m.heap
    /\ alloc' = c.m.alloc

\* the call r trapped: the next state is the memory at the trap
TrapState(r) == r.fault /\ Lands(Finish(r))

\* btree_insert(tree, k) of a key the tree does not hold, in which the
\* (f+1)-th allocation fails: the call traps and the process ends there
InsertFail(k, f) ==
    /\ last.op # "fault"
    /\ tree # NoTree
    /\ ndup = 0
    /\ k \notin model
    /\ TrapState(btree_insert_oom(Mach, tree, k, f))
    /\ last' = [op |-> "fault", hit |-> FALSE]
    /\ mergetest' = MergeTestNext("fault", k)
    /\ UNCHANGED <<model, ndup>>

\* a trap ends the process: no call follows it
Running == last.op # "fault"

RunningDestroy == Running /\ Destroy
RunningInsert(k) == Running /\ InsertNew(k)
RunningDelete(k) == Running /\ Delete(k)

NextAlloc ==
    \/ \E d \in Degrees : Create(d)
    \/ RunningDestroy
    \/ \E k \in Keys : RunningInsert(k)
    \/ \E k \in Keys : RunningDelete(k)
    \/ \E k \in Keys, f \in 0..MaxAllocs : InsertFail(k, f)

SpecAlloc == Init /\ [][NextAlloc]_vars

\* ----------------------------------------------- test_delete_all_keys
\* the keys[] array and the degree of test_delete_all_keys
DeleteAllKeys == <<50, 25, 75, 10, 30, 60, 90, 5, 15, 27, 35, 55, 65, 80, 95>>
DeleteAllDegree == 3

\* tree = btree_create(3)
DeleteAllCreate ==
    /\ last.op = "none"
    /\ Create(DeleteAllDegree)

\* the loop  for (i = 0; i < n; i++) btree_insert(tree, keys[i])
DeleteAllInsert ==
    /\ last.op \in {"create", "insert"}
    /\ Cardinality(model) < Len(DeleteAllKeys)
    /\ InsertNew(DeleteAllKeys[Cardinality(model) + 1])

\* the loop over the shuffled keys: btree_delete of a key not yet deleted
DeleteAllDelete(k) ==
    /\ \/ last.op = "delete"
       \/ last.op = "insert" /\ Cardinality(model) = Len(DeleteAllKeys)
    /\ k \in model
    /\ Delete(k)

NextDeleteAll ==
    \/ DeleteAllCreate
    \/ DeleteAllInsert
    \/ \E k \in Range(DeleteAllKeys) : DeleteAllDelete(k)

SpecDeleteAll == Init /\ [][NextDeleteAll]_vars

\* ---------------------------------------------- test_delete_with_merge
\* the degree and the number of keys of test_delete_with_merge
MergeTestDegree == 2
MergeTestKeys == 10

\* tree = btree_create(2)
MergeTestCreate ==
    /\ last.op = "none"
    /\ Create(MergeTestDegree)

\* the loop  for (i = 1; i <= 10; i++) btree_insert(tree, i)
MergeTestInsert ==
    /\ last.op \in {"create", "insert"}
    /\ Cardinality(model) < MergeTestKeys
    /\ InsertNew(Cardinality(model) + 1)

\* a btree_delete of a key still in the tree; the test's loop deletes 1..5 in
\* ascending order, which mergetest follows
MergeTestDelete(k) ==
    /\ \/ last.op = "delete"
       \/ last.op = "insert" /\ Cardinality(model) = MergeTestKeys
    /\ k \in model
    /\ Delete(k)

NextMergeTest ==
    \/ MergeTestCreate
    \/ MergeTestInsert
    \/ \E k \in 1..MergeTestKeys : MergeTestDelete(k)

SpecMergeTest == Init /\ [][NextMergeTest]_vars

\* ------------------------------------------------- structural vocabulary
\* the nodes reachable from the root through the child slots 0..n
Nodes == Range(Preorder(heap, <<tree.root>>, <<>>))

SubtreeKeys(a) == Range(btree_traverse(heap, a))

RECURSIVE LeafDepths(_, _, _)
LeafDepths(h, node, d) ==
    IF node = NULL THEN {}
    ELSE IF h[node].is_leaf THEN {d}
    ELSE UNION {LeafDepths(h, h[node].children[i], d + 1) : i \in 0..h[node].n}

\* the ascending enumeration of a finite set of integers
SortedSeq(S) ==
    [i \in 1..Cardinality(S) |->
        CHOOSE x \in S : Cardinality({y \in S : y < x}) = i - 1]

\* invariant 1: key counts
KeyCountOK ==
    \A a \in Nodes :
        /\ heap[a].n <= 2 * tree.t - 1
        /\ a # tree.root => heap[a].n >= tree.t - 1

\* invariant 2: keys strictly ascending within a node
NodeSortedOK ==
    \A a \in Nodes : \A i \in 1..(heap[a].n - 1) : heap[a].keys[i - 1] < heap[a].keys[i]

\* invariant 3: an internal node with n keys has n+1 live children
ChildrenOK ==
    \A a \in Nodes :
        ~heap[a].is_leaf =>
            \A i \in 0..heap[a].n :
                heap[a].children[i] # NULL /\ heap[a].children[i] \in alloc

\* invariant 4: a subtree's keys lie strictly between its parent's separators
SeparatorsOK ==
    \A a \in Nodes :
        ~heap[a].is_leaf =>
            \A i \in 0..heap[a].n : \A k \in SubtreeKeys(heap[a].children[i]) :
                /\ i > 0 => heap[a].keys[i - 1] < k
                /\ i < heap[a].n => k < heap[a].keys[i]

\* invariant 5: all leaves at one depth
LeafDepthOK == Cardinality(LeafDepths(heap, tree.root, 0)) <= 1

FiveInvariants ==
    KeyCountOK /\ NodeSortedOK /\ ChildrenOK /\ SeparatorsOK /\ LeafDepthOK

Found(k) == btree_search(heap, tree.root, k).node # NULL

\* the step is a btree_delete of a key the tree did not hold
DeleteAbsentStep == tree # NoTree /\ last'.op = "delete" /\ ~last'.hit

\* ------------------------------------------------------------------ claims

\* C1: validate(tree) returns true after every insert, whatever the keys,
\* repeated keys included.
C1_ValidAfterEveryInsert ==
    last.op = "insert" => btree_validate(heap, tree)

\* C2: after every completed operation of a run whose inserts are of keys the
\* tree does not hold, the five structural invariants hold.
C2_FiveInvariants ==
    tree # NoTree => FiveInvariants

C2_Witness ==
    /\ last.op = "delete"
    /\ last.hit
    /\ btree_height(heap, tree) = 3
    /\ FiveInvariants

\* C3: count(tree) is the size of the set of keys inserted and not deleted.
C3_CountIsSetSize ==
    tree # NoTree => btree_count(heap, tree) = Cardinality(model)

\* C4: inserting a key the tree already holds changes neither count nor the
\* in-order key sequence.
C4_InsertIdempotent ==
    [][(last'.op = "insert" /\ last'.hit) =>
          /\ btree_count(heap', tree') = btree_count(heap, tree)
          /\ InOrder' = InOrder]_vars

\* C5: the in-order traversal is the ascending enumeration of the set obtained
\* by the same adds and removes on an empty set.
C5_RefinesSet ==
    tree # NoTree => InOrder = SortedSeq(model)

\* C6: in a tree built by inserts of distinct keys and deletes, search returns
\* a node and index holding k exactly when k is in the tree.
C6_SearchExact ==
    tree # NoTree =>
        \A k \in 0..(MaxKey + 1) :
            LET s == btree_search(heap, tree.root, k)
            IN IF k \in model
               THEN /\ s.node \in Nodes
                    /\ s.idx >= 0 /\ s.idx < heap[s.node].n
                    /\ heap[s.node].keys[s.idx] = k
               ELSE s.node = NULL

C6_Witness ==
    /\ last.op = "insert"
    /\ btree_height(heap, tree) = 3
    /\ \E k \in model : btree_search(heap, tree.root, k).node # tree.root
    /\ \E k \in Keys \ model : ~Found(k)

\* C7: delete(tree, k) followed by search(tree, k) yields NotFound.
C7_DeleteThenNotFound ==
    [][last'.op = "delete" => \A k \in Keys : Delete(k) => ~Found(k)']_vars

\* C8: deleting a key the tree does not hold leaves the set of keys, the count
\* and the result of validate unchanged.
C8_DeleteAbsentKeepsKeys ==
    [][DeleteAbsentStep =>
          /\ KeySet' = KeySet
          /\ btree_count(heap', tree') = btree_count(heap, tree)
          /\ btree_validate(heap', tree') = btree_validate(heap, tree)]_vars

C8_Witness ==
    /\ last.op = "delete"
    /\ ~last.hit
    /\ btree_height(heap, tree) >= 2
    /\ btree_validate(heap, tree)

\* every child the descent for key passes through holds at least t keys, so
\* delete_internal calls neither fill nor merge on the way
RECURSIVE DescentNeedsNoFill(_, _, _, _)
DescentNeedsNoFill(h, node, key, t) ==
    \/ h[node].is_leaf
    \/ LET c == h[node].children[find_key(h[node], key)]
       IN h[c].n >= t /\ DescentNeedsNoFill(h, c, key, t)

\* C9 (as stated): deleting a key the tree does not hold leaves the whole tree
\* state unchanged: root, node structure, the keys and count of every node.
C9_DeleteAbsentNoOp ==
    [][DeleteAbsentStep => UNCHANGED <<tree, heap, alloc>>]_vars

\* C9 (amended): deleting a key the tree does not hold leaves the in-order key
\* sequence unchanged and lowers the height by at most one; the whole tree
\* state is unchanged when every child on the descent holds at least t keys.
C9_DeleteAbsentKeepsOrder ==
    [][DeleteAbsentStep =>
          /\ InOrder' = InOrder
          /\ btree_height(heap', tree') \in
                {btree_height(heap, tree), btree_height(heap, tree) - 1}
          /\ \A k \in Keys \ KeySet :
                (DescentNeedsNoFill(heap, tree.root, k, tree.t) /\ Delete(k)) =>
                    UNCHANGED <<tree, heap, alloc>>]_vars

C9_Witness ==
    /\ last.op = "delete"
    /\ ~last.hit
    /\ btree_height(heap, tree) = 2
    /\ heap[tree.root].n = 1

C11_AllocFailureKeepsTree ==
    last.op = "fault" => (KeySet = model /\ FiveInvariants)

\* C12: after every completed operation a root with 0 keys is a leaf and the
\* tree is empty; a tree that holds a key has a root with at least one key.
C12_RootKeyCount ==
    tree # NoTree =>
        /\ heap[tree.root].n = 0 => (heap[tree.root].is_leaf /\ model = {})
        /\ model # {} => heap[tree.root].n >= 1
        /\ ~heap[tree.root].is_leaf => heap[tree.root].n >= 1

C12_Witness ==
    /\ last.op = "delete"
    /\ last.hit
    /\ tree # NoTree
    /\ heap[tree.root].n = 0
    /\ heap[tree.root].is_leaf
    /\ alloc = {tree.root}

\* C13: in test_delete_all_keys (t = 3, the 15 keys inserted, then deleted one
\* at a time in any order) validate is true after every deletion, and once the
\* last key is deleted count is 0 and the root is a leaf, the only node left.
C13_DeleteAllKeys ==
    last.op = "delete" =>
        /\ btree_validate(heap, tree)
        /\ model = {} =>
              /\ btree_count(heap, tree) = 0
              /\ heap[tree.root].is_leaf
              /\ heap[tree.root].n = 0
              /\ alloc = {tree.root}

C13_Witness ==
    /\ last.op = "delete"
    /\ last.hit
    /\ tree.t = DeleteAllDegree
    /\ model = {}
    /\ btree_count(heap, tree) = 0

\* C14: in test_delete_with_merge (t = 2, insert 1..10 ascending, delete 1..5
\* ascending) validate is true after each delete, the final count is 5 and the
\* final height is at most the height before the first delete.
C14_DeleteWithMerge ==
    mergetest.step \in 11..15 =>
        /\ btree_validate(heap, tree)
        /\ mergetest.step = 15 =>
              /\ btree_count(heap, tree) = 5
              /\ btree_height(heap, tree) <= mergetest.height_before

C14_Witness ==
    /\ mergetest.step = 15
    /\ mergetest.height_before = 3
    /\ InOrder = <<6, 7, 8, 9, 10>>

\* the root holds 2t-1 keys: btree_insert splits it
RootFull == heap[tree.root].n = 2 * tree.t - 1

RootShrinks(k) ==
    /\ heap[tree.root].n > 0
    /\ LET m1 == delete_internal(Mach, tree.root, k, tree.t)
       IN m1.heap[tree.root].n = 0 /\ ~m1.heap[tree.root].is_leaf

ParentSlots(a) ==
    {<<p, i>> \in Nodes \X (0..(2 * tree.t - 1)) :
        ~heap[p].is_leaf /\ i <= heap[p].n /\ heap[p].children[i] = a}

\* C17: after every completed operation the allocated nodes are exactly the
\* nodes reachable from the root through the child slots 0..n, the root is
\* nobody's child and every other node is the child of exactly one slot (no
\* sharing, no cycle, nothing freed still reachable, nothing leaked).
C17_ExclusiveOwnership ==
    IF tree = NoTree THEN alloc = {}
    ELSE /\ alloc = Nodes
         /\ ParentSlots(tree.root) = {}
         /\ \A a \in Nodes \ {tree.root} : Cardinality(ParentSlots(a)) = 1

\* inserts 4, 6, 8, 9, 10 of test_delete_with_merge split, deletes 2..5 merge
C17_Witness ==
    /\ mergetest.step = 15
    /\ last.op = "delete"
    /\ Cardinality(alloc) = 3
    /\ alloc = Nodes

RECURSIVE Pow(_, _)
Pow(b, e) == IF e = 0 THEN 1 ELSE b * Pow(b, e - 1)

\* C18: a tree built by inserts of distinct keys and deletes that holds n >= 1
\* keys on h = height(tree) levels has n >= 2 * t^(h-1) - 1.
C18_LogarithmicDepth ==
    (tree # NoTree /\ btree_count(heap, tree) >= 1) =>
        btree_count(heap, tree) >=
            2 * Pow(tree.t, btree_height(heap, tree) - 1) - 1

C18_Witness ==
    /\ btree_height(heap, tree) = 3
    /\ btree_count(heap, tree) = 2 * Pow(tree.t, 2)

\* C19: every recursive invocation of delete_internal, for any key, is made on
\* a node that holds at least t keys at the moment of the call.
C19_RecursionOnFilledNodes ==
    (tree # NoTree /\ heap[tree.root].n > 0) =>
        \A k \in Keys :
            LET calls == delete_calls(Mach, tree.root, k, tree.t)
            IN \A j \in 1..Len(calls) :
                  calls[j].m.heap[calls[j].node].n >= tree.t

\* some delete of a three-level tree descends into a child of the root that
\* held t - 1 keys before fill and holds at least t when it is entered
C19_Witness ==
    /\ tree # NoTree
    /\ btree_height(heap, tree) = 3
    /\ \E k \in Keys :
          LET calls == delete_calls(Mach, tree.root, k, tree.t)
          IN /\ Len(calls) >= 2
             /\ heap[calls[1].node].n = tree.t - 1
             /\ calls[1].m.heap[calls[1].node].n >= tree.t

\* the invocations of delete_internal(root, k, t): the first and those it makes
DeleteEntries(k) ==
    <<[m |-> Mach, node |-> tree.root, key |-> k]>>
        \o delete_calls(Mach, tree.root, k, tree.t)

\* invocation e is in Case 3 and fills: the key is not in the node, the node
\* is internal and the child at the key's index holds fewer than t keys
Case3Fills(e, t) ==
    LET nd == e.m.heap[e.node]
        idx == find_key(nd, e.key)
    IN /\ ~(idx < nd.n /\ nd.keys[idx] = e.key)
       /\ ~nd.is_leaf
       /\ e.m.heap[nd.children[idx]].n < t

\* invocation e targeted its last child and the node lost a key when c was
\* called: fill merged the last child into its left sibling
MergedLeft(e, c) ==
    LET nd == e.m.heap[e.node]
    IN find_key(nd, e.key) = nd.n /\ c.m.heap[e.node].n = nd.n - 1

\* C20: in Case 3 with a fill, the recursion goes into children[idx-1] exactly
\* when the descent targeted the last child and fill merged it into its left
\* sibling, into children[idx] otherwise, and the child it goes into is the
\* one whose key range contains the key.
C20_Case3Target ==
    (tree # NoTree /\ heap[tree.root].n > 0) =>
        \A k \in Keys :
            LET es == DeleteEntries(k)
            IN \A i \in 1..(Len(es) - 1) :
                  Case3Fills(es[i], tree.t) =>
                      LET e == es[i]
                          c == es[i + 1]
                          idx == find_key(e.m.heap[e.node], e.key)
                          after == c.m.heap[e.node]
                          j == IF MergedLeft(e, c) THEN idx - 1 ELSE idx
                      IN /\ c.node = after.children[j]
                         /\ c.node \in c.m.alloc
                         /\ c.key = e.key
                         /\ j <= after.n
                         /\ j > 0 => after.keys[j - 1] < e.key
                         /\ j < after.n => e.key < after.keys[j]

\* some delete fills the last child of the root by a merge into its left sibling
C20_Witness ==
    /\ tree # NoTree
    /\ heap[tree.root].n >= 2
    /\ \E k \in Keys :
          LET es == DeleteEntries(k)
          IN /\ Len(es) >= 2
             /\ Case3Fills(es[1], tree.t)
             /\ MergedLeft(es[1], es[2])
             /\ es[2].node = es[2].m.heap[tree.root].children[heap[tree.root].n - 1]

\* ------------------------------------------------- what a fill has done
\* Invocation e of delete_internal filled children[idx] before it called c.
\* The four outcomes are told apart by the key counts and the allocation of
\* the child and its siblings before (e.m) and after (c.m).
FillIdx(e) == find_key(e.m.heap[e.node], e.key)
FillChild(e) == e.m.heap[e.node].children[FillIdx(e)]
FillLeft(e) == e.m.heap[e.node].children[FillIdx(e) - 1]
FillRight(e) == e.m.heap[e.node].children[FillIdx(e) + 1]
HasLeft(e) == FillIdx(e) > 0
HasRight(e) == FillIdx(e) < e.m.heap[e.node].n

BorrowedFromLeft(e, c) ==
    /\ HasLeft(e)
    /\ c.m.heap[FillLeft(e)].n = e.m.heap[FillLeft(e)].n - 1
    /\ c.m.heap[FillChild(e)].n = e.m.heap[FillChild(e)].n + 1
    /\ c.m.heap[e.node].n = e.m.heap[e.node].n
    /\ HasRight(e) => c.m.heap[FillRight(e)] = e.m.heap[FillRight(e)]
    /\ c.m.alloc = e.m.alloc

BorrowedFromRight(e, c) ==
    /\ HasRight(e)
    /\ c.m.heap[FillRight(e)].n = e.m.heap[FillRight(e)].n - 1
    /\ c.m.heap[FillChild(e)].n = e.m.heap[FillChild(e)].n + 1
    /\ c.m.heap[e.node].n = e.m.heap[e.node].n
    /\ HasLeft(e) => c.m.heap[FillLeft(e)] = e.m.heap[FillLeft(e)]
    /\ c.m.alloc = e.m.alloc

MergedWithRight(e, c) ==
    /\ HasRight(e)
    /\ c.m.alloc = e.m.alloc \ {FillRight(e)}
    /\ c.m.heap[FillChild(e)].n =
           e.m.heap[FillChild(e)].n + e.m.heap[FillRight(e)].n + 1
    /\ c.m.heap[e.node].n = e.m.heap[e.node].n - 1
    /\ HasLeft(e) => c.m.heap[FillLeft(e)] = e.m.heap[FillLeft(e)]

MergedWithLeft(e, c) ==
    /\ HasLeft(e)
    /\ c.m.alloc = e.m.alloc \ {FillChild(e)}
    /\ c.m.heap[FillLeft(e)].n =
           e.m.heap[FillLeft(e)].n + e.m.heap[FillChild(e)].n + 1
    /\ c.m.heap[e.node].n = e.m.heap[e.node].n - 1

Case2(e) ==
    LET nd == e.m.heap[e.node]
        idx == find_key(nd, e.key)
    IN idx < nd.n /\ nd.keys[idx] = e.key /\ ~nd.is_leaf

MaxOf(S) == CHOOSE x \in S : \A y \in S : y <= x
MinOf(S) == CHOOSE x \in S : \A y \in S : x <= y

\* the keys of the subtree under node a in memory m
KeysUnder(m, a) == Range(btree_traverse(m.heap, a))

\* the keys the tree holds once btree_delete(tree, k) has returned
KeysAfterDelete(k) ==
    LET r == btree_delete(Mach, tree, k)
    IN Range(btree_traverse(r.m.heap, r.tree.root))

\* C22: a key found at keys[idx] of an internal node is overwritten by the
\* largest key under children[idx] when that child has at least t keys, else by
\* the smallest key under children[idx+1] when that child has at least t keys,
\* and the delete goes on in that child for the copied key; else both children
\* have t-1 keys, they are merged and the delete goes on in the merged child
\* for the same key.  The call removes exactly the original key.
C22_Case2Replacement ==
    (tree # NoTree /\ heap[tree.root].n > 0) =>
        \A k \in Keys :
            LET es == DeleteEntries(k)
            IN \A i \in 1..Len(es) :
                  Case2(es[i]) =>
                      /\ i < Len(es)
                      /\ KeysAfterDelete(k) = KeySet \ {k}
                      /\ LET e == es[i]
                             c == es[i + 1]
                             nd == e.m.heap[e.node]
                             idx == find_key(nd, e.key)
                             lc == nd.children[idx]
                             rc == nd.children[idx + 1]
                         IN IF e.m.heap[lc].n >= tree.t
                            THEN LET pred == MaxOf(KeysUnder(e.m, lc))
                                 IN /\ c.m = [e.m EXCEPT !.heap[e.node].keys[idx] = pred]
                                    /\ c.node = lc
                                    /\ c.key = pred
                            ELSE IF e.m.heap[rc].n >= tree.t
                            THEN LET succ == MinOf(KeysUnder(e.m, rc))
                                 IN /\ c.m = [e.m EXCEPT !.heap[e.node].keys[idx] = succ]
                                    /\ c.node = rc
                                    /\ c.key = succ
                            ELSE /\ e.m.heap[lc].n = tree.t - 1
                                 /\ e.m.heap[rc].n = tree.t - 1
                                 /\ c.m.heap[e.node].n = nd.n - 1
                                 /\ c.m.alloc = e.m.alloc \ {rc}
                                 /\ c.node = lc
                                 /\ c.key = e.key
                                 /\ KeysUnder(c.m, lc) =
                                        KeysUnder(e.m, lc) \cup {e.key}
                                            \cup KeysUnder(e.m, rc)

\* the root of a three-level tree holds a key whose left child has t-1 keys
\* and whose right child at least t: the successor comes from two levels down
C22_Witness ==
    /\ tree # NoTree
    /\ btree_height(heap, tree) = 3
    /\ \E k \in KeySet :
          LET nd == heap[tree.root]
              idx == find_key(nd, k)
              es == DeleteEntries(k)
          IN /\ Case2(es[1])
             /\ heap[nd.children[idx]].n < tree.t
             /\ heap[nd.children[idx + 1]].n >= tree.t
             /\ Len(es) = 3
             /\ es[2].key = MinOf({x \in KeySet : x > k})
             /\ KeysAfterDelete(k) = KeySet \ {k}

\* ------------------------------------------------------ calls of an insert
\* the invocations of insert_non_full that btree_insert(tree, k) makes
InsertTrace(k) ==
    LET d == btree_insert_descent(Mach, tree, k)
    IN insert_calls(d.m, d.node, k, tree.t)

\* C23: insert_non_full is invoked only on nodes with fewer than 2t-1 keys, and
\* split_child only with a parent of fewer than 2t-1 keys and a child of
\* exactly 2t-1 keys, the split of the root by btree_insert included.
C23_InsertPreconditions ==
    tree # NoTree =>
        \A k \in Keys :
            /\ RootFull =>
                  LET rs == root_split(Mach, tree)
                      p == rs.before.heap[rs.node]
                  IN /\ p.n < 2 * tree.t - 1
                     /\ rs.before.heap[p.children[0]].n = 2 * tree.t - 1
            /\ LET calls == InsertTrace(k)
               IN \A j \in 1..Len(calls) :
                     LET c == calls[j]
                         nd == c.m.heap[c.node]
                     IN /\ nd.n < 2 * tree.t - 1
                        /\ c.split =>
                              c.m.heap[nd.children[c.at]].n = 2 * tree.t - 1

\* an insert splits the full root and, one level down, a full child
C23_Witness ==
    /\ tree # NoTree
    /\ RootFull
    /\ \E k \in Keys \ model :
          LET calls == InsertTrace(k)
          IN /\ Len(calls) = 2
             /\ calls[1].split
             /\ calls[1].m.heap[calls[1].node].n = tree.t - 1
             /\ calls[2].m.heap[calls[2].node].n = tree.t - 1

\* what split_child(parent, i, t) has done between memory b and memory a
SplitPost(b, a, parent, i, t) ==
    LET p == b.heap[parent]
        child == p.children[i]
        fc == b.heap[child]
        p2 == a.heap[parent]
        new == p2.children[i + 1]
        lo == a.heap[child]
        hi == a.heap[new]
    IN /\ p2.children[i] = child
       /\ lo.n = t - 1
       /\ \A j \in 0..(t - 2) : lo.keys[j] = fc.keys[j]
       /\ new \notin b.alloc
       /\ a.alloc = b.alloc \cup {new}
       /\ hi.is_leaf = fc.is_leaf
       /\ lo.is_leaf = fc.is_leaf
       /\ hi.n = t - 1
       /\ \A j \in 0..(t - 2) : hi.keys[j] = fc.keys[j + t]
       /\ ~fc.is_leaf =>
              \A j \in 0..(t - 1) : /\ hi.children[j] = fc.children[j + t]
                                    /\ lo.children[j] = fc.children[j]
       /\ p2.keys[i] = fc.keys[t - 1]
       /\ p2.n = p.n + 1
       /\ \A j \in 0..(p.n - 1) :
              p2.keys[IF j < i THEN j ELSE j + 1] = p.keys[j]
       /\ \A j \in 0..p.n :
              j # i => p2.children[IF j < i THEN j ELSE j + 1] = p.children[j]
       /\ \A x \in b.alloc \ {parent, child} : a.heap[x] = b.heap[x]
       /\ btree_traverse(a.heap, parent) = btree_traverse(b.heap, parent)

\* C24: split_child leaves the lower t-1 keys in children[i], puts the upper
\* t-1 keys (and the upper t children) in a new node of the same leaf-ness at
\* children[i+1] and the median at keys[i] of the parent, whose later keys and
\* children move right by one; the parent's in-order sequence is unchanged.
C24_SplitChild ==
    tree # NoTree =>
        \A k \in Keys :
            /\ RootFull =>
                  LET rs == root_split(Mach, tree)
                  IN SplitPost(rs.before, rs.m, rs.node, 0, tree.t)
            /\ LET calls == InsertTrace(k)
               IN \A j \in 1..Len(calls) :
                     calls[j].split =>
                         SplitPost(calls[j].m, calls[j].after, calls[j].node,
                                   calls[j].at, tree.t)

\* an insert splits a full internal root and then a full leaf that is not the
\* last child of its parent
C24_Witness ==
    /\ tree # NoTree
    /\ RootFull
    /\ ~heap[tree.root].is_leaf
    /\ SplitPost(root_split(Mach, tree).before, root_split(Mach, tree).m,
                 root_split(Mach, tree).node, 0, tree.t)
    /\ \E k \in Keys \ model :
          LET calls == InsertTrace(k)
          IN /\ calls[1].split
             /\ calls[1].at < calls[1].m.heap[calls[1].node].n
             /\ SplitPost(calls[1].m, calls[1].after, calls[1].node,
                          calls[1].at, tree.t)

\* ------------------------------------------------- what a merge has done
\* invocation e of delete_internal merged two children of its node before it
\* called c: the node has one key fewer
Merged(e, c) == c.m.heap[e.node].n = e.m.heap[e.node].n - 1

\* the index merge was called with: the child after it is gone
MergeIdx(e, c) ==
    CHOOSE i \in 0..(e.m.heap[e.node].n - 1) :
        e.m.heap[e.node].children[i + 1] \notin c.m.alloc

\* what merge(node, idx, t) has done between memory b and memory a
MergePost(b, a, node, idx, t) ==
    LET nd == b.heap[node]
        left == nd.children[idx]
        right == nd.children[idx + 1]
        l == b.heap[left]
        r == b.heap[right]
        p2 == a.heap[node]
        mg == a.heap[left]
    IN /\ mg.n = 2 * t - 1
       /\ mg.is_leaf = l.is_leaf
       /\ \A j \in 0..(t - 2) : mg.keys[j] = l.keys[j]
       /\ mg.keys[t - 1] = nd.keys[idx]
       /\ \A j \in 0..(t - 2) : mg.keys[t + j] = r.keys[j]
       /\ ~l.is_leaf =>
              \A j \in 0..(t - 1) : /\ mg.children[j] = l.children[j]
                                    /\ mg.children[t + j] = r.children[j]
       /\ p2.n = nd.n - 1
       /\ \A j \in 0..(nd.n - 1) :
              j # idx => p2.keys[IF j < idx THEN j ELSE j - 1] = nd.keys[j]
       /\ \A j \in 0..nd.n :
              j # idx + 1 =>
                  p2.children[IF j <= idx THEN j ELSE j - 1] = nd.children[j]
       /\ a.alloc = b.alloc \ {right}
       /\ \A x \in a.alloc \ {node, left} : a.heap[x] = b.heap[x]
       /\ btree_traverse(a.heap, node) = btree_traverse(b.heap, node)

\* C25: merge is invoked only when children[idx] and children[idx+1] both hold
\* exactly t-1 keys; afterwards children[idx] holds the left keys, keys[idx] of
\* the node and the right keys, in that order (2t-1 keys, and 2t children when
\* internal), the node has lost keys[idx] and children[idx+1], the right
\* sibling is freed and the in-order sequence under the node is unchanged.
C25_Merge ==
    (tree # NoTree /\ heap[tree.root].n > 0) =>
        \A k \in Keys :
            LET es == DeleteEntries(k)
            IN \A i \in 1..(Len(es) - 1) :
                  Merged(es[i], es[i + 1]) =>
                      LET e == es[i]
                          nd == e.m.heap[e.node]
                          idx == MergeIdx(e, es[i + 1])
                      IN /\ \E j \in 0..(nd.n - 1) :
                               nd.children[j + 1] \notin es[i + 1].m.alloc
                         /\ e.m.heap[nd.children[idx]].n = tree.t - 1
                         /\ e.m.heap[nd.children[idx + 1]].n = tree.t - 1
                         /\ MergePost(e.m, es[i + 1].m, e.node, idx, tree.t)

\* a delete merges two internal children, and they are not the last two
C25_Witness ==
    /\ tree # NoTree
    /\ heap[tree.root].n > 0
    /\ \E k \in Keys :
          LET es == DeleteEntries(k)
          IN \E i \in 1..(Len(es) - 1) :
                /\ Merged(es[i], es[i + 1])
                /\ MergeIdx(es[i], es[i + 1]) = 0
                /\ ~es[i].m.heap[es[i].m.heap[es[i].node].children[0]].is_leaf
                /\ MergePost(es[i].m, es[i + 1].m, es[i].node, 0, tree.t)

\* ------------------------------------------------- what a borrow has done
\* what borrow_from_left(node, idx) has done between memory b and memory a
BorrowLeftPost(b, a, node, idx) ==
    LET nd == b.heap[node]
        child == nd.children[idx]
        sibling == nd.children[idx - 1]
        c0 == b.heap[child]
        s0 == b.heap[sibling]
        c1 == a.heap[child]
        s1 == a.heap[sibling]
        p1 == a.heap[node]
    IN /\ c1.n = c0.n + 1
       /\ s1.n = s0.n - 1
       /\ p1.n = nd.n
       /\ c1.keys[0] = nd.keys[idx - 1]
       /\ \A j \in 0..(c0.n - 1) : c1.keys[j + 1] = c0.keys[j]
       /\ p1.keys[idx - 1] = s0.keys[s0.n - 1]
       /\ \A j \in 0..(nd.n - 1) : j # idx - 1 => p1.keys[j] = nd.keys[j]
       /\ \A j \in 0..nd.n : p1.children[j] = nd.children[j]
       /\ \A j \in 0..(s1.n - 1) : s1.keys[j] = s0.keys[j]
       /\ ~c0.is_leaf =>
              /\ c1.children[0] = s0.children[s0.n]
              /\ \A j \in 0..c0.n : c1.children[j + 1] = c0.children[j]
              /\ \A j \in 0..s1.n : s1.children[j] = s0.children[j]
       /\ a.alloc = b.alloc
       /\ \A x \in a.alloc \ {node, child, sibling} : a.heap[x] = b.heap[x]
       /\ btree_traverse(a.heap, node) = btree_traverse(b.heap, node)

\* what borrow_from_right(node, idx) has done between memory b and memory a
BorrowRightPost(b, a, node, idx) ==
    LET nd == b.heap[node]
        child == nd.children[idx]
        sibling == nd.children[idx + 1]
        c0 == b.heap[child]
        s0 == b.heap[sibling]
        c1 == a.heap[child]
        s1 == a.heap[sibling]
        p1 == a.heap[node]
    IN /\ c1.n = c0.n + 1
       /\ s1.n = s0.n - 1
       /\ p1.n = nd.n
       /\ c1.keys[c0.n] = nd.keys[idx]
       /\ \A j \in 0..(c0.n - 1) : c1.keys[j] = c0.keys[j]
       /\ p1.keys[idx] = s0.keys[0]
       /\ \A j \in 0..(nd.n - 1) : j # idx => p1.keys[j] = nd.keys[j]
       /\ \A j \in 0..nd.n : p1.children[j] = nd.children[j]
       /\ \A j \in 0..(s1.n - 1) : s1.keys[j] = s0.keys[j + 1]
       /\ ~c0.is_leaf =>
              /\ c1.children[c0.n + 1] = s0.children[0]
              /\ \A j \in 0..c0.n : c1.children[j] = c0.children[j]
              /\ \A j \in 0..s1.n : s1.children[j] = s0.children[j + 1]
       /\ a.alloc = b.alloc
       /\ \A x \in a.alloc \ {node, child, sibling} : a.heap[x] = b.heap[x]
       /\ btree_traverse(a.heap, node) = btree_traverse(b.heap, node)

\* invocation e filled a child without a merge: it borrowed
Borrowed(e, c) == Case3Fills(e, tree.t) /\ ~Merged(e, c)

\* C26: a borrow rotates one key through the parent: from the left, the
\* separator keys[idx-1] goes to the front of the child and the sibling's last
\* key (with its last child) replaces it; from the right, the separator
\* keys[idx] goes to the end of the child and the sibling's first key (with its
\* first child) replaces it, the sibling's keys and children moving left.  The
\* child gains a key, the sibling loses one, the parent keeps its count and
\* the in-order sequence is unchanged.
C26_Borrow ==
    (tree # NoTree /\ heap[tree.root].n > 0) =>
        \A k \in Keys :
            LET es == DeleteEntries(k)
            IN \A i \in 1..(Len(es) - 1) :
                  Borrowed(es[i], es[i + 1]) =>
                      LET e == es[i]
                          c == es[i + 1]
                          lends(sib) == c.m.heap[sib].n < e.m.heap[sib].n
                      IN IF HasLeft(e) /\ lends(FillLeft(e))
                         THEN BorrowLeftPost(e.m, c.m, e.node, FillIdx(e))
                         ELSE /\ HasRight(e)
                              /\ BorrowRightPost(e.m, c.m, e.node, FillIdx(e))

\* one delete borrows through the root between two internal children, and
\* another delete in the same tree borrows from a right sibling
C26_Witness ==
    /\ tree # NoTree
    /\ heap[tree.root].n > 0
    /\ \E k \in Keys :
          LET es == DeleteEntries(k)
          IN /\ Len(es) >= 2
             /\ Borrowed(es[1], es[2])
             /\ ~heap[FillChild(es[1])].is_leaf
             /\ HasLeft(es[1])
             /\ BorrowLeftPost(es[1].m, es[2].m, es[1].node, FillIdx(es[1]))
    /\ \E k \in Keys :
          LET es == DeleteEntries(k)
          IN \E i \in 1..(Len(es) - 1) :
                /\ Borrowed(es[i], es[i + 1])
                /\ HasRight(es[i])
                /\ BorrowRightPost(es[i].m, es[i + 1].m, es[i].node,
                                   FillIdx(es[i]))

\* ------------------------------------------------ btree_validate on shapes
\* btree_validate takes whatever the BTree* points at.  The shapes below are
\* trees of up to three levels of minimum degree ShapeDegree: a root with any
\* key count from 0 to 2t, ascending or misordered keys, and under it, per
\* child slot, nothing, a good leaf, or a node with one defect.
ShapeDegree == 2
RootKeyKinds == {"ascending", "equal", "descending"}
ChildKinds == {"null", "leaf", "empty", "out", "over", "unsorted", "deep"}

\* keys of the root: 4, 8, 12, ... or with the first two equal or swapped
RootKeys(kind) ==
    [j \in 0..(2 * ShapeDegree - 2) |->
        IF kind = "equal" /\ j = 1 THEN 4
        ELSE IF kind = "descending" /\ j < 2 THEN 8 - 4 * j
        ELSE 4 * (j + 1)]

\* the node under child slot i; a good one holds keys between 4i and 4i+4
ShapeChild(kind, i, first) ==
    LET t == ShapeDegree
        leaf(n, ks) == [n |-> n, is_leaf |-> TRUE,
                        keys |-> [j \in 0..(2 * t - 2) |->
                                    IF j < Len(ks) THEN ks[j + 1] ELSE Undef],
                        children |-> [j \in 0..(2 * t - 1) |-> NULL]]
    IN IF kind = "leaf" THEN leaf(t - 1, <<4 * i + 2>>)
       ELSE IF kind = "empty" THEN leaf(t - 2, <<>>)
       ELSE IF kind = "out" THEN leaf(t - 1, <<4 * i + 4>>)
       ELSE IF kind = "over" THEN leaf(2 * t, <<4 * i + 1, 4 * i + 2, 4 * i + 3>>)
       ELSE IF kind = "unsorted" THEN leaf(2, <<4 * i + 3, 4 * i + 1>>)
       ELSE [n |-> 1, is_leaf |-> FALSE,
             keys |-> [j \in 0..(2 * t - 2) |-> IF j = 0 THEN 4 * i + 2 ELSE Undef],
             children |-> [j \in 0..(2 * t - 1) |->
                             IF j < 2 THEN first + j ELSE NULL]]

\* the memory of a shape: root at 1, children from 2, grandchildren after them
ShapeHeap(rl, rn, rkind, kinds) ==
    LET t == ShapeDegree
        live(i) == ~rl /\ i <= rn /\ i < 2 * t /\ kinds[i] # "null"
        g0 == 2 * t + 2
    IN [a \in Addr |->
          IF a = 1
          THEN [n |-> rn, is_leaf |-> rl, keys |-> RootKeys(rkind),
                children |-> [i \in 0..(2 * t - 1) |->
                                IF live(i) THEN 2 + i ELSE NULL]]
          ELSE IF a < g0
          THEN IF live(a - 2)
               THEN ShapeChild(kinds[a - 2], a - 2, g0 + 2 * (a - 2))
               ELSE NoCell
          ELSE IF a < g0 + 4 * t
          THEN LET i == (a - g0) \div 2
                   side == (a - g0) % 2
               IN IF live(i) /\ kinds[i] = "deep"
                  THEN [n |-> 1, is_leaf |-> TRUE,
                        keys |-> [j \in 0..(2 * t - 2) |->
                                    IF j = 0 THEN 4 * i + 1 + 2 * side ELSE Undef],
                        children |-> [j \in 0..(2 * t - 1) |-> NULL]]
                  ELSE NoCell
          ELSE NoCell]

InitValidate ==
    /\ tree = [t |-> ShapeDegree, root |-> 1]
    /\ \E rl \in BOOLEAN, rn \in 0..(2 * ShapeDegree), rkind \in RootKeyKinds,
          kinds \in [0..(2 * ShapeDegree - 1) -> ChildKinds] :
          heap = ShapeHeap(rl, rn, rkind, kinds)
    /\ alloc = {a \in Addr : heap[a] # NoCell}
    /\ last = [op |-> "none", hit |-> FALSE]
    /\ model = {}
    /\ ndup = 0
    /\ mergetest = [step |-> -1, height_before |-> 0]

\* btree_validate(tree)
Validate ==
    /\ last.op = "none"
    /\ last' = [op |-> "validate", hit |-> btree_validate(heap, tree)]
    /\ UNCHANGED <<tree, heap, alloc, model, ndup, mergetest>>

NextValidate == Validate

SpecValidate == InitValidate /\ [][NextValidate]_vars

\* the key slots and child slots of a node that exist and are in use
ShapeKeySlots(h, a, t) ==
    0..((IF h[a].n > 2 * t - 1 THEN 2 * t - 1 ELSE h[a].n) - 1)
ShapeChildSlots(h, a, t) ==
    IF h[a].is_leaf THEN {}
    ELSE 0..(IF h[a].n > 2 * t - 1 THEN 2 * t - 1 ELSE h[a].n)

\* the nodes of the shape under a, with their depth below a
RECURSIVE ShapeNodes(_, _, _, _)
ShapeNodes(h, a, t, d) ==
    {<<a, d>>} \cup
    UNION {ShapeNodes(h, h[a].children[j], t, d + 1) :
               j \in {x \in ShapeChildSlots(h, a, t) : h[a].children[x] # NULL}}

ShapeKeysUnder(h, a, t) ==
    UNION {{h[x[1]].keys[j] : j \in ShapeKeySlots(h, x[1], t)} :
               x \in ShapeNodes(h, a, t, 0)}

\* the shape under the root violates one of the five invariants
ShapeViolates(h, tr) ==
    LET t == tr.t
        ns == ShapeNodes(h, tr.root, t, 0)
    IN \/ \E x \in ns : h[x[1]].n > 2 * t - 1
       \/ \E x \in ns : x[1] # tr.root /\ h[x[1]].n < t - 1
       \/ h[tr.root].n = 0 /\ ~h[tr.root].is_leaf
       \/ \E x \in ns : \E j \in ShapeKeySlots(h, x[1], t) :
             j > 0 /\ h[x[1]].keys[j] <= h[x[1]].keys[j - 1]
       \/ \E x \in ns : \E j \in ShapeChildSlots(h, x[1], t) :
             h[x[1]].children[j] = NULL
       \/ \E x \in ns : \E j \in ShapeChildSlots(h, x[1], t) :
             /\ h[x[1]].children[j] # NULL
             /\ \E k \in ShapeKeysUnder(h, h[x[1]].children[j], t) :
                   \/ j > 0 /\ k <= h[x[1]].keys[j - 1]
                   \/ j < h[x[1]].n /\ j <= 2 * t - 2 /\ k >= h[x[1]].keys[j]
       \/ \E x \in ns : \E k \in ShapeKeysUnder(h, x[1], t) :
             k <= INT_MIN \/ k >= INT_MAX
       \/ \E x, y \in ns :
             h[x[1]].is_leaf /\ h[y[1]].is_leaf /\ x[2] # y[2]

\* C27: btree_validate returns false for every shape that violates one of the
\* five invariants (a root with 0 keys that is not a leaf included) and true
\* for an empty leaf root.
C27_ValidateComplete ==
    last.op = "validate" =>
        /\ ShapeViolates(heap, tree) => ~last.hit
        /\ (heap[tree.root].n = 0 /\ heap[tree.root].is_leaf) => last.hit

\* ------------------------------------------------------ depth of descent
\* node a lies d levels below the root in memory h
AtDepth(h, root, a, d) == <<a, d>> \in ShapeNodes(h, root, tree.t, 0)

\* C28: every invocation of btree_search, insert_non_full and delete_internal
\* is made on a node exactly one level below the node of the invocation before
\* it, the last one of an insert on a leaf, and a call makes at most as many
\* invocations as the tree has levels.
C28_DescentBounded ==
    tree # NoTree =>
        \A k \in 0..(MaxKey + 1) :
            /\ LET sc == search_calls(heap, tree.root, k)
               IN /\ \A j \in 1..Len(sc) : AtDepth(heap, tree.root, sc[j], j - 1)
                  /\ Len(sc) - 1 <= btree_height(heap, tree)
                  /\ heap[tree.root].n > 0 => Len(sc) <= btree_height(heap, tree)
            /\ LET d == btree_insert_descent(Mach, tree, k)
                   calls == insert_calls(d.m, d.node, k, tree.t)
                   first == IF d.node = d.root THEN 0 ELSE 1
                   r == btree_insert(Mach, tree, k)
               IN /\ \A j \in 1..Len(calls) :
                        AtDepth(calls[j].m.heap, d.root, calls[j].node, first + j - 1)
                  /\ calls[Len(calls)].m.heap[calls[Len(calls)].node].is_leaf
                  /\ first + Len(calls) = btree_height(r.m.heap, r.tree)
            /\ heap[tree.root].n > 0 =>
                  LET es == DeleteEntries(k)
                  IN /\ \A j \in 1..Len(es) :
                           AtDepth(es[j].m.heap, tree.root, es[j].node, j - 1)
                     /\ Len(es) <= btree_height(heap, tree)

\* a three-level tree in which a search, a delete and an insert each go down
\* to a leaf
C28_Witness ==
    /\ tree # NoTree
    /\ btree_height(heap, tree) = 3
    /\ \E k \in model :
          /\ Len(search_calls(heap, tree.root, k)) = 3
          /\ Len(DeleteEntries(k)) = 3
    /\ \E k \in Keys \ model : Len(InsertTrace(k)) = 3

\* ------------------------------------------------- array slots in use
\* The key slots (k) and child slots (c) a function reads or writes, from its
\* loops and subscripts, given the memory it starts in.  All nodes of a tree
\* have arrays of the same size, so the slots of different nodes are pooled.
Slots(ks, cs) == [k |-> ks, c |-> cs]
Both(a, b) == [k |-> a.k \cup b.k, c |-> a.c \cup b.c]
NoSlots == Slots({}, {})

split_child_slots(m, parent, i, t) ==
    LET p == m.heap[parent]
        fc == m.heap[p.children[i]]
    IN Slots((0..(t - 2)) \cup {j + t : j \in 0..(t - 2)}
                 \cup (i..(p.n - 1)) \cup {j + 1 : j \in i..(p.n - 1)}
                 \cup {i, t - 1},
             {i, i + 1}
                 \cup (IF ~fc.is_leaf
                       THEN (0..(t - 1)) \cup {j + t : j \in 0..(t - 1)}
                       ELSE {})
                 \cup ((i + 1)..p.n) \cup {j + 1 : j \in (i + 1)..p.n})

\* invocation c of insert_non_full, its split_child included
insert_non_full_slots(c, key, t) ==
    LET nd == c.m.heap[c.node]
        i0 == scan_down(nd.keys, nd.n - 1, key)
    IN IF nd.is_leaf
       THEN Slots({j \in 0..nd.n : j >= i0}, {})
       ELSE Both(Slots({j \in 0..(nd.n - 1) : j >= i0}
                           \cup (IF c.split THEN {c.at} ELSE {}),
                       {c.at} \cup (IF c.split /\ key > c.after.heap[c.node].keys[c.at]
                                    THEN {c.at + 1} ELSE {})),
                 IF c.split THEN split_child_slots(c.m, c.node, c.at, t)
                 ELSE NoSlots)

\* btree_insert before its call of insert_non_full
btree_insert_slots(m, tr) ==
    IF m.heap[tr.root].n = 2 * tr.t - 1
    THEN LET rs == root_split(m, tr)
         IN Both(Slots({0}, {0, 1}),
                 split_child_slots(rs.before, rs.node, 0, tr.t))
    ELSE NoSlots

merge_slots(m, node, idx, t) ==
    LET nd == m.heap[node]
        l == m.heap[nd.children[idx]]
        r == m.heap[nd.children[idx + 1]]
    IN Slots({idx, t - 1} \cup {t + i : i \in 0..(r.n - 1)} \cup (0..(r.n - 1))
                 \cup (idx..(nd.n - 2)) \cup {i + 1 : i \in idx..(nd.n - 2)},
             {idx, idx + 1}
                 \cup (IF ~l.is_leaf
                       THEN {t + i : i \in 0..r.n} \cup (0..r.n) ELSE {})
                 \cup ((idx + 1)..(nd.n - 1))
                 \cup {i + 1 : i \in (idx + 1)..(nd.n - 1)})

borrow_from_left_slots(m, node, idx) ==
    LET nd == m.heap[node]
        c == m.heap[nd.children[idx]]
        sb == m.heap[nd.children[idx - 1]]
    IN Slots({sb.n - 1, 0, idx - 1} \cup (0..(c.n - 1))
                 \cup {i + 1 : i \in 0..(c.n - 1)},
             {idx, idx - 1}
                 \cup (IF ~c.is_leaf
                       THEN (0..c.n) \cup {i + 1 : i \in 0..c.n} \cup {0, sb.n}
                       ELSE {}))

borrow_from_right_slots(m, node, idx) ==
    LET nd == m.heap[node]
        c == m.heap[nd.children[idx]]
        sb == m.heap[nd.children[idx + 1]]
    IN Slots({c.n, idx, 0} \cup (0..(sb.n - 2)) \cup {i + 1 : i \in 0..(sb.n - 2)},
             {idx, idx + 1}
                 \cup (IF ~c.is_leaf THEN {c.n + 1, 0} ELSE {})
                 \cup (IF ~sb.is_leaf
                       THEN (0..(sb.n - 1)) \cup {i + 1 : i \in 0..(sb.n - 1)}
                       ELSE {}))

fill_slots(m, node, idx, t) ==
    LET nd == m.heap[node]
    IN IF idx > 0 /\ m.heap[nd.children[idx - 1]].n >= t
       THEN Both(Slots({}, {idx - 1}), borrow_from_left_slots(m, node, idx))
       ELSE IF idx < nd.n /\ m.heap[nd.children[idx + 1]].n >= t
       THEN Both(Slots({}, (IF idx > 0 THEN {idx - 1} ELSE {}) \cup {idx + 1}),
                 borrow_from_right_slots(m, node, idx))
       ELSE Both(Slots({}, (IF idx > 0 THEN {idx - 1} ELSE {})
                               \cup (IF idx < nd.n THEN {idx + 1} ELSE {})),
                 IF idx < nd.n THEN merge_slots(m, node, idx, t)
                 ELSE merge_slots(m, node, idx - 1, t))

\* the walk of get_predecessor (to the right) or get_successor from cur
RECURSIVE walk_slots(_, _, _)
walk_slots(h, cur, right) ==
    IF h[cur].is_leaf THEN Slots({IF right THEN h[cur].n - 1 ELSE 0}, {})
    ELSE Both(Slots({}, {IF right THEN h[cur].n ELSE 0}),
              walk_slots(h, h[cur].children[IF right THEN h[cur].n ELSE 0], right))

\* invocation e of delete_internal, with what it calls except itself
delete_internal_slots(e, t) ==
    LET nd == e.m.heap[e.node]
        idx == find_key(nd, e.key)
        scan == Slots({j \in 0..(nd.n - 1) : j <= idx}, {})
    IN IF idx < nd.n /\ nd.keys[idx] = e.key
       THEN IF nd.is_leaf
            THEN Both(scan, Slots(idx..(nd.n - 1), {}))
            ELSE IF e.m.heap[nd.children[idx]].n >= t
            THEN Both(Both(scan, Slots({idx}, {idx})),
                      walk_slots(e.m.heap, nd.children[idx], TRUE))
            ELSE IF e.m.heap[nd.children[idx + 1]].n >= t
            THEN Both(Both(scan, Slots({idx}, {idx, idx + 1})),
                      walk_slots(e.m.heap, nd.children[idx + 1], FALSE))
            ELSE Both(Both(scan, Slots({}, {idx, idx + 1})),
                      merge_slots(e.m, e.node, idx, t))
       ELSE IF nd.is_leaf THEN scan
       ELSE Both(Both(scan, Slots({}, {idx})),
                 IF e.m.heap[nd.children[idx]].n < t
                 THEN Both(fill_slots(e.m, e.node, idx, t),
                           Slots({}, IF idx = nd.n /\
                                          idx > fill(e.m, e.node, idx, t).heap[e.node].n
                                     THEN {idx - 1} ELSE {}))
                 ELSE NoSlots)

\* slots that exist in the arrays create_node allocates, and key counts that
\* fit them, in memory m
InBounds(sl, t) ==
    /\ sl.k \subseteq 0..(2 * t - 2)
    /\ sl.c \subseteq 0..(2 * t - 1)
CountsFit(m, t) == \A a \in m.alloc : m.heap[a].n \in 0..(2 * t - 1)

\* C29: every key slot an insert or a delete touches has an index in 0..2t-2,
\* every child slot an index in 0..2t-1, and no node holds more than 2t-1 keys
\* at any invocation inside the call or when it returns.
C29_SlotsInBounds ==
    tree # NoTree =>
        \A k \in Keys :
            /\ LET calls == InsertTrace(k)
               IN /\ InBounds(btree_insert_slots(Mach, tree), tree.t)
                  /\ \A j \in 1..Len(calls) :
                        /\ InBounds(insert_non_full_slots(calls[j], k, tree.t), tree.t)
                        /\ CountsFit(calls[j].m, tree.t)
                        /\ CountsFit(calls[j].after, tree.t)
            /\ heap[tree.root].n > 0 =>
                  LET es == DeleteEntries(k)
                  IN /\ \A j \in 1..Len(es) :
                           /\ InBounds(delete_internal_slots(es[j], tree.t), tree.t)
                           /\ CountsFit(es[j].m, tree.t)
                     /\ CountsFit(btree_delete(Mach, tree, k).m, tree.t)

\* in a tree whose root is full, an insert and a delete that each touch the
\* last key slot and the last child slot
C29_Witness ==
    /\ tree # NoTree
    /\ RootFull
    /\ \E k \in Keys \ model :
          LET calls == InsertTrace(k)
          IN /\ calls[1].split
             /\ 2 * tree.t - 2 \in insert_non_full_slots(calls[1], k, tree.t).k
             /\ 2 * tree.t - 1 \in btree_insert_slots(Mach, tree).c
    /\ \E k \in model :
          LET es == DeleteEntries(k)
          IN \E j \in 1..Len(es) :
                /\ 2 * tree.t - 2 \in delete_internal_slots(es[j], tree.t).k
                /\ 2 * tree.t - 1 \in delete_internal_slots(es[j], tree.t).c

\* ------------------------------------------- keys at the limits of int
\* distinct keys that include INT_MIN and INT_MAX, the bounds btree_validate
\* starts validate_node with
LimitKeys == {INT_MIN, INT_MIN + 1, -1, 1, 2, INT_MAX - 1, INT_MAX}

NextLimits ==
    \/ \E d \in Degrees : Create(d)
    \/ \E k \in LimitKeys : InsertNew(k)

SpecLimits == Init /\ [][NextLimits]_vars

\* C30: btree_validate returns true after every insert of a key the tree does
\* not hold, whatever the key, INT_MIN and INT_MAX included.
C30_ValidAtLimits ==
    (tree # NoTree /\ last.op = "insert") => btree_validate(heap, tree)

TypeOK ==
    /\ alloc \subseteq Addr
    /\ model \subseteq Keys \cup Range(DeleteAllKeys) \cup LimitKeys

====
